---- MODULE Spec2Model ----
(***************************************************************************)
(* A model of litellm/llms/azure.py: the Azure OpenAI provider adapter.    *)
(*                                                                         *)
(*  - AzureOpenAIConfig.map_openai_params: the API-version-gated parameter *)
(*    negotiation (specification SpecNegotiate);                           *)
(*  - get_azure_ad_token_from_oidc: the federated-identity token exchange  *)
(*    with its TTL cache (specifications Spec and SpecSeq);                *)
(*  - AzureChatCompletion.completion: client construction and payload      *)
(*    assembly (specification SpecCompletion).                             *)
(*                                                                         *)
(* Python strings are sequences of one-character strings, compared by code *)
(* point as Python compares them; None is the string "None", True and      *)
(* False are "True" and "False"; a dict is a function on its key set, and  *)
(* a dict's iteration order is a sequence of <<key, value>> pairs.         *)
(***************************************************************************)
EXTENDS Integers, Sequences, FiniteSets, TLC

\* ------------------------------------------------------------------------
\* Python values

None == "None"

PyTrue == "True"

PyFalse == "False"

\* ord(c) for the characters that occur in the modelled strings.
Ord(c) ==
    CASE c = "-" -> 45
      [] c = "/" -> 47
      [] c = "0" -> 48
      [] c = "1" -> 49
      [] c = "2" -> 50
      [] c = "3" -> 51
      [] c = "4" -> 52
      [] c = "5" -> 53
      [] c = "6" -> 54
      [] c = "7" -> 55
      [] c = "8" -> 56
      [] c = "9" -> 57
      [] c = "p" -> 112
      [] OTHER -> 120

\* str.__lt__: lexicographic by code point, a proper prefix is smaller.
RECURSIVE StrLess(_, _)
StrLess(a, b) ==
    IF b = <<>> THEN FALSE
    ELSE IF a = <<>> THEN TRUE
    ELSE IF Ord(Head(a)) < Ord(Head(b)) THEN TRUE
    ELSE IF Ord(Head(a)) > Ord(Head(b)) THEN FALSE
    ELSE StrLess(Tail(a), Tail(b))

\* str.__le__
StrLeq(a, b) == a = b \/ StrLess(a, b)

\* str.split(sep) for a one-character separator: every separator ends a
\* field, empty fields are kept.
RECURSIVE SplitFrom(_, _, _, _)
SplitFrom(s, sep, done, cur) ==
    IF s = <<>> THEN Append(done, cur)
    ELSE IF Head(s) = sep THEN SplitFrom(Tail(s), sep, Append(done, cur), <<>>)
    ELSE SplitFrom(Tail(s), sep, done, Append(cur, Head(s)))

Split(s, sep) == SplitFrom(s, sep, <<>>, <<>>)

\* dict[k] = v
DictSet(d, k, v) == [x \in (DOMAIN d) \cup {k} |-> IF x = k THEN v ELSE d[x]]

\* dict.get(k, default)
DictGet(d, k, default) == IF k \in DOMAIN d THEN d[k] ELSE default

EmptyDict == [x \in {} |-> None]

\* ------------------------------------------------------------------------
\* AzureOpenAIConfig.map_openai_params

\* get_supported_openai_params (the list holds "tools" and "tool_choice"
\* twice; membership is all the code asks of it).
SupportedOpenAIParams ==
    {"temperature", "n", "stream", "stop", "max_tokens", "tools",
     "tool_choice", "presence_penalty", "frequency_penalty", "logit_bias",
     "user", "function_call", "functions", "top_p", "logprobs",
     "top_logprobs", "response_format", "seed", "extra_headers"}

IsSupportedAny(param) == TRUE

\* elif param in supported_openai_params
IsSupported(param) == param \in SupportedOpenAIParams

Y2023 == <<"2", "0", "2", "3">>

Y2024 == <<"2", "0", "2", "4">>

M12 == <<"1", "2">>

M05 == <<"0", "5">>

D01 == <<"0", "1">>

VersionGateMonthLeq(y, m, d) ==
    \/ StrLess(y, Y2023)
    \/ (y = Y2023 /\ StrLeq(m, M12))
    \/ (y = Y2023 /\ m = M12 /\ StrLess(d, D01))

\* The first gate: the API version does not support tool_choice at all.
VersionGate(y, m, d) ==
    \/ StrLess(y, Y2023)
    \/ (y = Y2023 /\ StrLess(m, M12))
    \/ (y = Y2023 /\ m = M12 /\ StrLess(d, D01))

RequiredGateStrict(value, y, m) ==
    value = "required" /\ (y = Y2024 /\ StrLess(m, M05))

RequiredGateNoYear(value, y, m) ==
    value = "required" /\ StrLeq(m, M05)

\* The second gate: tool_choice="required" is not supported.
RequiredGate(value, y, m) ==
    value = "required" /\ (y = Y2024 /\ StrLeq(m, M05))

DropEnabledPerCallWins(litellm_drop_params, drop_params) ==
    IF drop_params # None THEN drop_params = PyTrue
    ELSE litellm_drop_params = PyTrue

\* litellm.drop_params == True or (drop_params is not None and drop_params == True)
DropEnabled(litellm_drop_params, drop_params) ==
    \/ litellm_drop_params = PyTrue
    \/ (drop_params # None /\ drop_params = PyTrue)

ToolChoiceDecisionNoDrop(value, y, m, d, dropping) ==
    IF VersionGate(y, m, d)
    THEN IF dropping THEN "forward" ELSE "raise"
    ELSE IF RequiredGate(value, y, m)
    THEN IF dropping THEN "forward" ELSE "raise"
    ELSE "forward"

\* The if / elif / else on tool_choice: "raise", "drop" (pass) or "forward".
ToolChoiceDecision(value, y, m, d, dropping) ==
    IF VersionGate(y, m, d)
    THEN IF dropping THEN "drop" ELSE "raise"
    ELSE IF RequiredGate(value, y, m)
    THEN IF dropping THEN "drop" ELSE "raise"
    ELSE "forward"

\* The for loop over non_default_params.items(), from item i on, writing
\* into optional_params in place. The result is how the call ends and what
\* the caller's optional_params dict then holds.
RECURSIVE MapLoop(_, _, _, _, _, _, _)
MapLoop(items, i, optional_params, y, m, d, dropping) ==
    IF i > Len(items)
    THEN [outcome |-> "return", status_code |-> 0,
          optional_params |-> optional_params]
    ELSE LET param == items[i][1]
             value == items[i][2]
         IN  IF param = "tool_choice"
             THEN LET dec == ToolChoiceDecision(value, y, m, d, dropping)
                  IN  IF dec = "raise"
                      THEN [outcome |-> "UnsupportedParamsError",
                            status_code |-> 400,
                            optional_params |-> optional_params]
                      ELSE IF dec = "drop"
                      THEN MapLoop(items, i + 1, optional_params, y, m, d, dropping)
                      ELSE MapLoop(items, i + 1,
                                   DictSet(optional_params, "tool_choice", value),
                                   y, m, d, dropping)
             ELSE IF IsSupported(param)
             THEN MapLoop(items, i + 1, DictSet(optional_params, param, value),
                          y, m, d, dropping)
             ELSE MapLoop(items, i + 1, optional_params, y, m, d, dropping)

MapOpenAIParamsIndexInLoop(non_default_params, optional_params, api_version, litellm_drop_params, drop_params) ==
    LET api_version_times == Split(api_version, "-")
    IN  IF Len(api_version_times) < 3
        THEN IF non_default_params = <<>>
             THEN [outcome |-> "return", status_code |-> 0,
                   optional_params |-> optional_params]
             ELSE [outcome |-> "IndexError", status_code |-> 0,
                   optional_params |-> optional_params]
        ELSE MapLoop(non_default_params, 1, optional_params,
                     api_version_times[1], api_version_times[2],
                     api_version_times[3],
                     DropEnabled(litellm_drop_params, drop_params))

\* map_openai_params. api_version.split("-")[2] on fewer than three fields is
\* an IndexError, raised before the loop.
MapOpenAIParams(non_default_params, optional_params, api_version, litellm_drop_params, drop_params) ==
    LET api_version_times == Split(api_version, "-")
    IN  IF Len(api_version_times) < 3
        THEN [outcome |-> "IndexError", status_code |-> 0,
              optional_params |-> optional_params]
        ELSE MapLoop(non_default_params, 1, optional_params,
                     api_version_times[1], api_version_times[2],
                     api_version_times[3],
                     DropEnabled(litellm_drop_params, drop_params))

\* ------------------------------------------------------------------------
\* AzureOpenAIAssistantsAPIConfig.map_openai_params_create_message_params
\*
\* A value is its Python type, its text when it is a str, and its items
\* when it is a list; an attachment item is a dict.

Str(text) == [type |-> "str", text |-> text, items |-> <<>>]

List(items) == [type |-> "list", text |-> "", items |-> items]

Dict(text) == [type |-> "dict", text |-> text, items |-> <<>>]

\* isinstance(value, str)
IsStr(value) == value.type = "str"

\* isinstance(value, list)
IsList(value) == value.type = "list"

\* litellm.drop_params == True
MessageDropEnabled(litellm_drop_params) == litellm_drop_params = PyTrue

\* The for loop over the attachment items (lines 284-296), from item j on:
\* file_ids collects the file_id of every item that has one; an item without
\* one is passed over when dropping is enabled and raises otherwise.
RECURSIVE FileIds(_, _, _, _)
FileIds(value, j, file_ids, dropping) ==
    IF j > Len(value) THEN [outcome |-> "ok", file_ids |-> file_ids]
    ELSE IF "file_id" \in DOMAIN value[j]
    THEN FileIds(value, j + 1, Append(file_ids, value[j]["file_id"]), dropping)
    ELSE IF dropping THEN FileIds(value, j + 1, file_ids, dropping)
    ELSE [outcome |-> "raise", file_ids |-> file_ids]

UnsupportedParams(optional_params) ==
    [outcome |-> "UnsupportedParamsError", status_code |-> 400,
     optional_params |-> optional_params]

\* The for loop over non_default_params.items() (lines 266-303), from item i
\* on, writing into optional_params in place: `if param == "role"` stands on
\* its own, the chain metadata / content / attachments follows it. file_ids
\* is a local that nothing reads after its loop.
RECURSIVE CreateMessageLoop(_, _, _, _)
CreateMessageLoop(items, i, optional_params, dropping) ==
    IF i > Len(items)
    THEN [outcome |-> "return", status_code |-> 0,
          optional_params |-> optional_params]
    ELSE LET param == items[i][1]
             value == items[i][2]
             o == IF param = "role" THEN DictSet(optional_params, "role", value)
                  ELSE optional_params
         IN  IF param = "metadata"
             THEN CreateMessageLoop(items, i + 1, DictSet(o, "metadata", value), dropping)
             ELSE IF param = "content"
             THEN IF IsStr(value)
                  THEN CreateMessageLoop(items, i + 1, DictSet(o, "content", value),
                                         dropping)
                  ELSE UnsupportedParams(o)
             ELSE IF param = "attachments"
             THEN IF IsList(value)
                  THEN IF FileIds(value.items, 1, <<>>, dropping).outcome = "raise"
                       THEN UnsupportedParams(o)
                       ELSE CreateMessageLoop(items, i + 1, o, dropping)
                  ELSE UnsupportedParams(o)
             ELSE CreateMessageLoop(items, i + 1, o, dropping)

MapOpenAIParamsCreateMessageParams(non_default_params, optional_params, litellm_drop_params) ==
    CreateMessageLoop(non_default_params, 1, optional_params,
                      MessageDropEnabled(litellm_drop_params))

\* ------------------------------------------------------------------------
\* AzureOpenAIConfig.__init__ and get_config
\*
\* An attribute name is a sequence of pieces (<<"__", "doc", "__">>), so that
\* startswith("__") is StartsWith on the pieces; an attribute is the kind of
\* object it holds and, for a plain value, the value.

Attr(kind, v) == [kind |-> kind, v |-> v]

\* types.FunctionType, types.BuiltinFunctionType, classmethod, staticmethod
FunctionKinds == {"function", "builtin_function", "classmethod", "staticmethod"}

ConfigInitClearing(class_dict, args) ==
    [k \in (DOMAIN class_dict) \cup (DOMAIN args) |->
        IF k \in DOMAIN args THEN Attr("value", args[k]) ELSE class_dict[k]]

\* for key, value in locals_.items(): if key != "self" and value is not
\* None: setattr(self.__class__, key, value). args holds the locals other
\* than self.
ConfigInit(class_dict, args) ==
    [k \in (DOMAIN class_dict) \cup {a \in DOMAIN args : args[a] # None} |->
        IF k \in DOMAIN args /\ args[k] # None THEN Attr("value", args[k])
        ELSE class_dict[k]]

\* get_config (lines 130-144)
GetConfig(class_dict) ==
    [k \in {a \in DOMAIN class_dict :
               /\ ~(Len(a) >= 1 /\ a[1] = "__")    \* not k.startswith("__")
               /\ class_dict[a].kind \notin FunctionKinds
               /\ class_dict[a].v # None} |-> class_dict[k].v]

\* ------------------------------------------------------------------------
\* azure_ad_cache = DualCache(): get_cache / set_cache with a ttl.
\* An entry is [value, expires_at]; get_cache answers None for a key that is
\* absent or whose entry has expired, and drops the expired entry.

CacheLive(c, key, t) == key \in DOMAIN c /\ t < c[key].expires_at

CacheGet(c, key, t) == IF CacheLive(c, key, t) THEN c[key].value ELSE None

CacheAfterGet(c, key, t) ==
    IF key \in DOMAIN c /\ ~CacheLive(c, key, t)
    THEN [k \in (DOMAIN c) \ {key} |-> c[k]]
    ELSE c

CacheSet(c, key, value, ttl, t) ==
    DictSet(c, key, [value |-> value, expires_at |-> t + ttl])

\* ------------------------------------------------------------------------
\* get_azure_ad_token_from_oidc

DefaultAuthorityHost == "https://login.microsoftonline.com"

\* os.getenv("AZURE_AUTHORITY_HOST", "https://login.microsoftonline.com")
AuthorityHost(env_value) ==
    IF env_value = None THEN DefaultAuthorityHost ELSE env_value

\* The values of the environment and the secret manager are strings; those
\* that hold a quote are spelled out here piece by piece, every other value
\* is one piece with no quote and no backslash in it. A piece is a quote, a
\* backslash, or a text that holds neither, so two strings are equal exactly
\* when their pieces are.
ItemSeparator == <<"\"", ", ", "\"", "oidc_token", "\"", ": ", "\"">>

HostWithQuotes == "https://h\", \"oidc_token\": \"jwt"

SecretWithQuotes == "jwt\", \"oidc_token\": \"2"

Chars(v) ==
    CASE v = HostWithQuotes -> <<"https://h">> \o ItemSeparator \o <<"jwt">>
      [] v = SecretWithQuotes -> <<"jwt">> \o ItemSeparator \o <<"2">>
      [] OTHER -> <<v>>

\* json.dumps of a str: quotes around it, a backslash before every quote and
\* every backslash in it.
RECURSIVE JsonEscape(_)
JsonEscape(chars) ==
    IF chars = <<>> THEN <<>>
    ELSE (IF Head(chars) = "\"" THEN <<"\\", "\"">>
          ELSE IF Head(chars) = "\\" THEN <<"\\", "\\">>
          ELSE <<Head(chars)>>) \o JsonEscape(Tail(chars))

JsonString(chars) == <<"\"">> \o JsonEscape(chars) \o <<"\"">>

JsonStringRaw(chars) == <<"\"">> \o chars \o <<"\"">>

\* json.dumps of a dict of str to str, its items in insertion order:
\* {"k1": "v1", "k2": "v2"}
RECURSIVE JsonItems(_, _)
JsonItems(items, i) ==
    IF i > Len(items) THEN <<>>
    ELSE (IF i > 1 THEN <<", ">> ELSE <<>>)
         \o JsonString(<<items[i][1]>>) \o <<": ">> \o JsonString(Chars(items[i][2]))
         \o JsonItems(items, i + 1)

JsonDumps(items) == <<"{">> \o JsonItems(items, 1) \o <<"}">>

AzureAdTokenCacheKeyUnescaped(client_id, tenant_id, authority_host, oidc_token) ==
    <<"{">> \o JsonStringRaw(<<"azure_client_id">>) \o <<": ">>
           \o JsonStringRaw(Chars(client_id)) \o <<", ">>
           \o JsonStringRaw(<<"azure_tenant_id">>) \o <<": ">>
           \o JsonStringRaw(Chars(tenant_id)) \o <<", ">>
           \o JsonStringRaw(<<"azure_authority_host">>) \o <<": ">>
           \o JsonStringRaw(Chars(authority_host)) \o <<", ">>
           \o JsonStringRaw(<<"oidc_token">>) \o <<": ">>
           \o JsonStringRaw(Chars(oidc_token)) \o <<"}">>

\* Lines 348-355: json.dumps of the four-entry dict.
AzureAdTokenCacheKey(client_id, tenant_id, authority_host, oidc_token) ==
    JsonDumps(<<<<"azure_client_id", client_id>>,
                <<"azure_tenant_id", tenant_id>>,
                <<"azure_authority_host", authority_host>>,
                <<"oidc_token", oidc_token>>>>)

\* if azure_ad_token_access_token is not None: return it
CacheHit(cached) == cached # None

SetCacheTTLPlusOne(expires_in) == expires_in + 1

\* set_cache(..., ttl=azure_ad_token_expires_in)
SetCacheTTL(expires_in) == expires_in

\* AzureOpenAIError(status_code=..., message=...)
AzureOpenAIError(status_code, message) ==
    [outcome |-> "AzureOpenAIError", status_code |-> status_code, message |-> message]

ResolveLookupNoCache(client_id, tenant_id, host_env, oidc_token, c, t) ==
    IF client_id = None \/ tenant_id = None
    THEN [step |-> "raise",
          error |-> AzureOpenAIError(422, "AZURE_CLIENT_ID and AZURE_TENANT_ID must be set"),
          secret_lookup |-> FALSE, cache_read |-> FALSE, cache |-> c]
    ELSE IF oidc_token = None
    THEN [step |-> "raise",
          error |-> AzureOpenAIError(401, "OIDC token could not be retrieved from secret manager."),
          secret_lookup |-> TRUE, cache_read |-> FALSE, cache |-> c]
    ELSE [step |-> "post",
          key |-> AzureAdTokenCacheKey(client_id, tenant_id,
                                       AuthorityHost(host_env), oidc_token),
          secret_lookup |-> TRUE, cache_read |-> FALSE, cache |-> c]

ResolveLookupSecretFirst(client_id, tenant_id, host_env, oidc_token, c, t) ==
    IF oidc_token = None
    THEN [step |-> "raise",
          error |-> AzureOpenAIError(401, "OIDC token could not be retrieved from secret manager."),
          secret_lookup |-> TRUE, cache_read |-> FALSE, cache |-> c]
    ELSE IF client_id = None \/ tenant_id = None
    THEN [step |-> "raise",
          error |-> AzureOpenAIError(422, "AZURE_CLIENT_ID and AZURE_TENANT_ID must be set"),
          secret_lookup |-> TRUE, cache_read |-> FALSE, cache |-> c]
    ELSE LET key == AzureAdTokenCacheKey(client_id, tenant_id,
                                         AuthorityHost(host_env), oidc_token)
             cached == CacheGet(c, key, t)
         IN  IF CacheHit(cached)
             THEN [step |-> "return", token |-> cached,
                   secret_lookup |-> TRUE, cache_read |-> TRUE,
                   cache |-> CacheAfterGet(c, key, t)]
             ELSE [step |-> "post", key |-> key,
                   secret_lookup |-> TRUE, cache_read |-> TRUE,
                   cache |-> CacheAfterGet(c, key, t)]

\* Lines 328-359: the environment, the secret lookup and the cache lookup.
\* "raise" with the error, "return" with the cached token, or "post" with
\* the cache key the exchange will be stored under; secret_lookup and
\* cache_read tell whether get_secret and get_cache were called on the way.
ResolveLookup(client_id, tenant_id, host_env, oidc_token, c, t) ==
    IF client_id = None \/ tenant_id = None
    THEN [step |-> "raise",
          error |-> AzureOpenAIError(422, "AZURE_CLIENT_ID and AZURE_TENANT_ID must be set"),
          secret_lookup |-> FALSE, cache_read |-> FALSE, cache |-> c]
    ELSE IF oidc_token = None
    THEN [step |-> "raise",
          error |-> AzureOpenAIError(401, "OIDC token could not be retrieved from secret manager."),
          secret_lookup |-> TRUE, cache_read |-> FALSE, cache |-> c]
    ELSE LET key == AzureAdTokenCacheKey(client_id, tenant_id,
                                         AuthorityHost(host_env), oidc_token)
             cached == CacheGet(c, key, t)
         IN  IF CacheHit(cached)
             THEN [step |-> "return", token |-> cached,
                   secret_lookup |-> TRUE, cache_read |-> TRUE,
                   cache |-> CacheAfterGet(c, key, t)]
             ELSE [step |-> "post", key |-> key,
                   secret_lookup |-> TRUE, cache_read |-> TRUE,
                   cache |-> CacheAfterGet(c, key, t)]

ResolveResponseFlatStatus(key, resp, c, t) ==
    IF resp.status_code # 200
    THEN [step |-> "raise", error |-> AzureOpenAIError(422, resp.text), cache |-> c]
    ELSE IF "access_token" \notin DOMAIN resp.json
    THEN [step |-> "raise",
          error |-> AzureOpenAIError(422, "Azure AD Token access_token not returned"),
          cache |-> c]
    ELSE IF "expires_in" \notin DOMAIN resp.json
    THEN [step |-> "raise",
          error |-> AzureOpenAIError(422, "Azure AD Token expires_in not returned"),
          cache |-> c]
    ELSE [step |-> "return", token |-> resp.json["access_token"],
          cache |-> CacheSet(c, key, resp.json["access_token"],
                             SetCacheTTL(resp.json["expires_in"]), t)]

ResolveResponseKeepFirst(key, resp, c, t) ==
    IF resp.status_code # 200
    THEN [step |-> "raise", error |-> AzureOpenAIError(resp.status_code, resp.text),
          cache |-> c]
    ELSE IF "access_token" \notin DOMAIN resp.json
    THEN [step |-> "raise",
          error |-> AzureOpenAIError(422, "Azure AD Token access_token not returned"),
          cache |-> c]
    ELSE IF "expires_in" \notin DOMAIN resp.json
    THEN [step |-> "raise",
          error |-> AzureOpenAIError(422, "Azure AD Token expires_in not returned"),
          cache |-> c]
    ELSE [step |-> "return", token |-> resp.json["access_token"],
          cache |-> IF key \in DOMAIN c THEN c
                    ELSE CacheSet(c, key, resp.json["access_token"],
                                  SetCacheTTL(resp.json["expires_in"]), t)]

ResolveResponseNoStore(key, resp, c, t) ==
    IF resp.status_code # 200
    THEN [step |-> "raise", error |-> AzureOpenAIError(resp.status_code, resp.text),
          cache |-> c]
    ELSE IF "access_token" \notin DOMAIN resp.json
    THEN [step |-> "raise",
          error |-> AzureOpenAIError(422, "Azure AD Token access_token not returned"),
          cache |-> c]
    ELSE IF "expires_in" \notin DOMAIN resp.json
    THEN [step |-> "raise",
          error |-> AzureOpenAIError(422, "Azure AD Token expires_in not returned"),
          cache |-> c]
    ELSE [step |-> "return", token |-> resp.json["access_token"], cache |-> c]

\* Lines 372-398: the token endpoint's response, the cache write, the return.
\* resp.json is the response body: json.get(k, None) is None exactly when k
\* is not a key of it; resp.text is the body as text.
ResolveResponse(key, resp, c, t) ==
    IF resp.status_code # 200
    THEN [step |-> "raise", error |-> AzureOpenAIError(resp.status_code, resp.text),
          cache |-> c]
    ELSE IF "access_token" \notin DOMAIN resp.json
    THEN [step |-> "raise",
          error |-> AzureOpenAIError(422, "Azure AD Token access_token not returned"),
          cache |-> c]
    ELSE IF "expires_in" \notin DOMAIN resp.json
    THEN [step |-> "raise",
          error |-> AzureOpenAIError(422, "Azure AD Token expires_in not returned"),
          cache |-> c]
    ELSE [step |-> "return", token |-> resp.json["access_token"],
          cache |-> CacheSet(c, key, resp.json["access_token"],
                             SetCacheTTL(resp.json["expires_in"]), t)]

\* ------------------------------------------------------------------------
\* AzureChatCompletion.completion
\*
\* api_base and azure_ad_token are strings written as sequences of pieces
\* ("https:", "/", "gateway", ".", ...): a piece never holds "/" or "." inside
\* a longer text, so `in`, endswith and startswith on the pieces are those on
\* the characters. None for such a value is NoneS.

NoneS == <<"None">>

GatewayHost == <<"gateway", ".", "ai", ".", "cloudflare", ".", "com">>

DeploymentsPath == <<"/", "openai", "/", "deployments">>

\* needle in hay
Contains(hay, needle) ==
    \E i \in 0..(Len(hay) - Len(needle)) :
        SubSeq(hay, i + 1, i + Len(needle)) = needle

\* s.endswith(suffix)
EndsWith(s, suffix) ==
    /\ Len(s) >= Len(suffix)
    /\ SubSeq(s, Len(s) - Len(suffix) + 1, Len(s)) = suffix

\* s.startswith(prefix)
StartsWith(s, prefix) ==
    /\ Len(s) >= Len(prefix)
    /\ SubSeq(s, 1, Len(prefix)) = prefix

\* dict.pop(k, default): the dict without k.
DictWithout(d, k) == [x \in (DOMAIN d) \ {k} |-> d[x]]

\* {**a, **b}
DictMerge(a, b) ==
    [x \in (DOMAIN a) \cup (DOMAIN b) |-> IF x \in DOMAIN b THEN b[x] ELSE a[x]]

\* A Python int, and a value that is not one.
IntVal(n) == [type |-> "int", v |-> n]

DefaultMaxRetries == 2

NoError == [type |-> "none"]

\* AzureOpenAIError(status_code=..., message=...)
AzureError(status_code) ==
    [type |-> "AzureOpenAIError", has_status |-> TRUE, status_code |-> status_code]

\* The except clauses of completion (lines 590-597): an AzureOpenAIError is
\* re-raised, any other exception becomes one, with its status_code or 500.
CompletionExcept(e) ==
    IF e.type = "AzureOpenAIError" THEN e
    ELSE IF e.has_status THEN AzureError(e.status_code)
    ELSE AzureError(500)

\* select_azure_base_url_or_endpoint
SelectAzureBaseUrlOrEndpoint(params) ==
    IF /\ "azure_endpoint" \in DOMAIN params
       /\ params["azure_endpoint"] # NoneS
       /\ Contains(params["azure_endpoint"], DeploymentsPath)
    THEN DictWithout(DictSet(params, "base_url", params["azure_endpoint"]),
                     "azure_endpoint")
    ELSE params

GatewayBaseUrlAlwaysSlash(api_base, model) == api_base \o <<"/">> \o <<model>>

\* Lines 452-454: if not api_base.endswith("/"): api_base += "/";
\* api_base += f"{model}"
GatewayBaseUrl(api_base, model) ==
    (IF EndsWith(api_base, <<"/">>) THEN api_base ELSE api_base \o <<"/">>)
        \o <<model>>

\* How a resolution ended, as the request sees it: r is the lookup's result
\* or, after a post, the response's.
OidcResult(posted, r) ==
    [posted |-> posted, cache |-> r.cache,
     error |-> IF r.step = "raise" THEN AzureError(r.error.status_code) ELSE NoError,
     token |-> IF r.step = "return" THEN <<r.token>> ELSE NoneS]

OidcAfterLookup(l, resp, t) ==
    IF l.step = "post"
    THEN OidcResult(TRUE, ResolveResponse(l.key, resp, l.cache, t))
    ELSE OidcResult(FALSE, l)

\* The whole of get_azure_ad_token_from_oidc in one step, resp being what
\* the token endpoint answers if it is asked.
ResolveOidc(env, resp, c, t) ==
    OidcAfterLookup(ResolveLookup(env.client_id, env.tenant_id, env.authority_host,
                                  env.oidc_token, c, t), resp, t)

\* azure_ad_token = get_azure_ad_token_from_oidc(azure_ad_token);
\* azure_client_params["azure_ad_token"] = azure_ad_token
AuthResolved(params, azure_ad_token, r) ==
    [params |-> IF r.error.type = "none"
                THEN DictSet(params, "azure_ad_token", r.token) ELSE params,
     azure_ad_token |-> IF r.error.type = "none" THEN r.token ELSE azure_ad_token,
     error |-> r.error, posted |-> r.posted, cache |-> r.cache, oidc_calls |-> 1]

AttachAuthTokenFirst(params, api_key, azure_ad_token, env, resp, c, t) ==
    IF azure_ad_token # NoneS
    THEN IF StartsWith(azure_ad_token, <<"oidc", "/">>)
         THEN AuthResolved(params, azure_ad_token, ResolveOidc(env, resp, c, t))
         ELSE [params |-> DictSet(params, "azure_ad_token", azure_ad_token),
               azure_ad_token |-> azure_ad_token,
               error |-> NoError, posted |-> FALSE, cache |-> c, oidc_calls |-> 0]
    ELSE IF api_key # None
    THEN [params |-> DictSet(params, "api_key", api_key),
          azure_ad_token |-> azure_ad_token,
          error |-> NoError, posted |-> FALSE, cache |-> c, oidc_calls |-> 0]
    ELSE [params |-> params, azure_ad_token |-> azure_ad_token,
          error |-> NoError, posted |-> FALSE, cache |-> c, oidc_calls |-> 0]

\* if api_key is not None: ... elif azure_ad_token is not None: ...
\* (lines 463-471, 555-560, 632-637, 707-712, 765-770): the client
\* parameters with the auth field, the token as resolved, what the
\* resolution did, and how many times get_azure_ad_token_from_oidc was called.
AttachAuth(params, api_key, azure_ad_token, env, resp, c, t) ==
    IF api_key # None
    THEN [params |-> DictSet(params, "api_key", api_key),
          azure_ad_token |-> azure_ad_token,
          error |-> NoError, posted |-> FALSE, cache |-> c, oidc_calls |-> 0]
    ELSE IF azure_ad_token # NoneS
    THEN IF StartsWith(azure_ad_token, <<"oidc", "/">>)
         THEN AuthResolved(params, azure_ad_token, ResolveOidc(env, resp, c, t))
         ELSE [params |-> DictSet(params, "azure_ad_token", azure_ad_token),
               azure_ad_token |-> azure_ad_token,
               error |-> NoError, posted |-> FALSE, cache |-> c, oidc_calls |-> 0]
    ELSE [params |-> params, azure_ad_token |-> azure_ad_token,
          error |-> NoError, posted |-> FALSE, cache |-> c, oidc_calls |-> 0]

\* ------------------------------------------------------------------------
\* State

VARIABLES
    negIn,      \* the arguments of one map_openai_params call
    negOut,     \* how that call ended, and the caller's optional_params then
    now,        \* the clock the cache reads
    cache,      \* azure_ad_cache: key -> [value, expires_at]
    pc,         \* per caller: "idle", or "posting" (inside httpx.post)
    req,        \* per caller: the inputs of the resolution it is in
    event,      \* the step just taken: who, with what inputs, to what end
    ncalls,     \* resolutions begun so far
    exchangeCalls,  \* token-exchange HTTP calls made so far
    issued,     \* access token -> the identity, store time and expires_in
                \* of the exchange that produced it
    compIn,     \* the arguments of one AzureChatCompletion.completion call
    comp,       \* that call's progress: its locals, the clients it built,
                \* the observations it logged, the upstream calls, its result
    capIn,      \* the arguments of one embedding, image-generation,
                \* transcription or assistants request, and what its
                \* environment answers
    cap,        \* that request made twice, once blocking and once
                \* non-blocking: per mode, its progress as in comp
    msgIn,      \* the arguments of one map_openai_params_create_message_params
                \* call
    msgOut,     \* how that call ended, and the caller's optional_params then
    classDict,  \* AzureOpenAIConfig.__dict__: attribute name -> its value
    ctorCalls   \* the arguments of the AzureOpenAIConfig(...) calls so far

negVars == <<negIn, negOut>>

resolverVars == <<now, cache, pc, req, event, ncalls, exchangeCalls, issued>>

compVars == <<compIn, comp>>

capVars == <<capIn, cap>>

msgVars == <<msgIn, msgOut>>

cfgVars == <<classDict, ctorCalls>>

vars == <<negIn, negOut, now, cache, pc, req, event, ncalls, exchangeCalls, issued, compIn, comp, capIn, cap, msgIn, msgOut, classDict, ctorCalls>>

\* ------------------------------------------------------------------------
\* Inputs of map_openai_params

MaxParams == 3

Dash == <<"-">>

Years == {<<"2", "0", "2", "2">>, Y2023, Y2024, <<"2", "0", "2", "5">>}

Months == {M05, <<"0", "6">>, <<"1", "1">>, M12, <<"5">>}

Days == {<<"0", "0">>, D01, <<"1", "5">>}

Suffixes == {<<>>, <<"-", "p">>}

\* Y-M-D-{optional}: the string, and the fields it was written from.
WellFormedVersions ==
    {[text |-> y \o Dash \o m \o Dash \o d \o s, fields |-> <<y, m, d>>] :
        y \in Years, m \in Months, d \in Days, s \in Suffixes}

\* Fewer than three dash-separated fields.
ShortVersions ==
    {[text |-> Y2024, fields |-> <<>>],
     [text |-> Y2024 \o Dash \o M05, fields |-> <<>>]}

ApiVersions == WellFormedVersions \cup ShortVersions

RequestNames == {"tool_choice", "temperature", "n", "parallel_tool_calls"}

RequestValues(name) ==
    CASE name = "tool_choice" -> {"auto", "required"}
      [] name = "temperature" -> {"1"}
      [] name = "n" -> {"2"}
      [] OTHER -> {"True"}

RequestItems == {<<name, v>> : name \in RequestNames, v \in {"auto", "required", "1", "2", "True"}}

\* The dicts a caller can pass as non_default_params, in iteration order:
\* the keys of a dict are distinct.
NonDefaultParams ==
    {s \in UNION {[1..k -> RequestItems] : k \in 0..MaxParams} :
        /\ \A i \in DOMAIN s : s[i][2] \in RequestValues(s[i][1])
        /\ \A i, j \in DOMAIN s : i # j => s[i][1] # s[j][1]}

InitialOptionalParams ==
    {EmptyDict, [x \in {"temperature", "tool_choice"} |->
                    IF x = "temperature" THEN "0" ELSE "none"]}

NegIdle == [pc |-> "idle"]

NoCall ==
    [api_version |-> <<>>, version_fields |-> <<>>, non_default_params |-> <<>>,
     optional_params |-> EmptyDict, litellm_drop_params |-> PyFalse,
     drop_params |-> None]

NoClient == [kind |-> "none"]

NoEnv == [client_id |-> None, tenant_id |-> None, authority_host |-> None, oidc_token |-> None]

NoCompletion ==
    [model |-> None, messages |-> None, api_key |-> None, api_base |-> <<>>,
     api_version |-> None, azure_ad_token |-> NoneS, optional_params |-> EmptyDict,
     acompletion |-> FALSE, client |-> NoClient, env |-> NoEnv]

CompIdle == [pc |-> "idle"]

NoCapability == [capability |-> None]

CapIdle == [pc |-> "idle"]

NoMessageCall ==
    [non_default_params |-> <<>>, optional_params |-> EmptyDict,
     litellm_drop_params |-> PyFalse]

MsgIdle == [pc |-> "idle"]

InitMessageIdle == msgIn = NoMessageCall /\ msgOut = MsgIdle

\* The class as the class statement leaves it: its methods, among them the
\* classmethod get_config, and the attributes Python gives every class.
InitialClassDict ==
    [k \in {<<"__", "module", "__">>, <<"__", "doc", "__">>, <<"__", "init", "__">>,
            <<"get_config">>, <<"get_supported_openai_params">>,
            <<"map_openai_params">>} |->
        CASE k = <<"__", "module", "__">> -> Attr("value", "litellm.llms.azure")
          [] k = <<"__", "doc", "__">> -> Attr("value", "Reference")
          [] k = <<"get_config">> -> Attr("classmethod", "get_config")
          [] OTHER -> Attr("function", "def")]

InitConfig == classDict = InitialClassDict /\ ctorCalls = <<>>

Procs == {1, 2}

NoReq == [client_id |-> None, tenant_id |-> None, authority_host |-> None, oidc_token |-> None]

InitResolver ==
    /\ now = 0
    /\ cache = EmptyDict
    /\ pc = [p \in Procs |-> "idle"]
    /\ req = [p \in Procs |-> NoReq]
    /\ event = [kind |-> "init"]
    /\ ncalls = 0
    /\ exchangeCalls = 0
    /\ issued = EmptyDict

InitNegotiate ==
    /\ negIn \in {[api_version |-> v.text,
                   version_fields |-> v.fields,
                   non_default_params |-> items,
                   optional_params |-> o,
                   litellm_drop_params |-> g,
                   drop_params |-> dp] :
                     v \in ApiVersions, items \in NonDefaultParams,
                     o \in InitialOptionalParams, g \in {PyTrue, PyFalse},
                     dp \in {None, PyTrue, PyFalse}}
    /\ negOut = NegIdle
    /\ InitResolver
    /\ compIn = NoCompletion
    /\ comp = CompIdle
    /\ capIn = NoCapability
    /\ cap = CapIdle
    /\ InitMessageIdle
    /\ InitConfig

\* One call of map_openai_params.
MapOpenAIParamsCall ==
    /\ negOut.pc = "idle"
    /\ LET r == MapOpenAIParams(negIn.non_default_params, negIn.optional_params,
                                negIn.api_version, negIn.litellm_drop_params,
                                negIn.drop_params)
       IN  negOut' = [pc |-> "done", outcome |-> r.outcome,
                      status_code |-> r.status_code,
                      optional_params |-> r.optional_params]
    /\ UNCHANGED negIn
    /\ UNCHANGED resolverVars
    /\ UNCHANGED compVars
    /\ UNCHANGED capVars
    /\ UNCHANGED <<msgVars, cfgVars>>

NextNegotiate == MapOpenAIParamsCall

SpecNegotiate == InitNegotiate /\ [][NextNegotiate]_vars

\* ------------------------------------------------------------------------
\* Inputs of map_openai_params_create_message_params

WithFileId == [k \in {"file_id"} |-> "file-1"]

WithoutFileId == [k \in {"tools"} |-> "file_search"]

MessageValues(name) ==
    CASE name = "role" -> {Str("user")}
      [] name = "content" -> {Str("hello"), List(<<>>)}
      [] name = "attachments" ->
            {List(<<>>), List(<<WithFileId>>), List(<<WithoutFileId>>),
             List(<<WithFileId, WithoutFileId>>), Dict("file-1")}
      [] name = "metadata" -> {Dict("meta")}
      [] OTHER -> {Str("x")}

MessageNames == {"role", "content", "attachments", "metadata", "tools"}

MessageItems == UNION {{<<name, v>> : v \in MessageValues(name)} : name \in MessageNames}

\* The dicts a caller can pass as non_default_params, in iteration order.
MessageParams ==
    {s \in UNION {[1..k -> MessageItems] : k \in 0..MaxParams} :
        \A i, j \in DOMAIN s : i # j => s[i][1] # s[j][1]}

MessageOptionalParams ==
    {EmptyDict,
     [k \in {"content", "attachments"} |->
        IF k = "content" THEN Str("old") ELSE List(<<WithFileId>>)]}

InitCreateMessage ==
    /\ negIn = NoCall
    /\ negOut = NegIdle
    /\ InitResolver
    /\ compIn = NoCompletion
    /\ comp = CompIdle
    /\ capIn = NoCapability
    /\ cap = CapIdle
    /\ msgIn \in {[non_default_params |-> items, optional_params |-> o,
                    litellm_drop_params |-> g] :
                      items \in MessageParams, o \in MessageOptionalParams,
                      g \in {PyTrue, PyFalse}}
    /\ msgOut = MsgIdle
    /\ InitConfig

\* One call of map_openai_params_create_message_params.
MapOpenAIParamsCreateMessageParamsCall ==
    /\ msgOut.pc = "idle"
    /\ \E r \in {MapOpenAIParamsCreateMessageParams(msgIn.non_default_params,
                                                     msgIn.optional_params,
                                                     msgIn.litellm_drop_params)} :
          msgOut' = [pc |-> "done", outcome |-> r.outcome,
                     status_code |-> r.status_code,
                     optional_params |-> r.optional_params]
    /\ UNCHANGED msgIn
    /\ UNCHANGED <<negVars, resolverVars, compVars, capVars, cfgVars>>

NextCreateMessage == MapOpenAIParamsCreateMessageParamsCall

SpecCreateMessage == InitCreateMessage /\ [][NextCreateMessage]_vars

\* ------------------------------------------------------------------------
\* Constructor calls of AzureOpenAIConfig

MaxCtorCalls == 3

\* Three of the ten settings; __init__ treats all ten alike.
Settings == {<<"temperature">>, <<"max_tokens">>, <<"stop">>}

SettingValues == {None, "1", "2"}

InitConfigCalls ==
    /\ negIn = NoCall
    /\ negOut = NegIdle
    /\ InitResolver
    /\ compIn = NoCompletion
    /\ comp = CompIdle
    /\ capIn = NoCapability
    /\ cap = CapIdle
    /\ InitMessageIdle
    /\ InitConfig

\* AzureOpenAIConfig(**args): a setting left out is None.
Construct(args) ==
    /\ Len(ctorCalls) < MaxCtorCalls
    /\ classDict' = ConfigInit(classDict, args)
    /\ ctorCalls' = Append(ctorCalls, args)
    /\ UNCHANGED <<negVars, resolverVars, compVars, capVars, msgVars>>

NextConfig == \E args \in [Settings -> SettingValues] : Construct(args)

SpecConfig == InitConfigCalls /\ [][NextConfig]_vars

\* ------------------------------------------------------------------------
\* Resolutions of a federated credential

MaxTime == 3

MaxCalls == 3

MaxExpiresIn == 2

ClientIds == {None, "c1"}

TenantIds == {None, "t1"}

AuthorityHostEnv == {None, "https://login.example"}

\* What get_secret answers for the oidc/ reference.
OidcTokens == {None, "jwt1"}

\* What the token endpoint can answer; the n-th access token it hands out
\* is a new one.
TokenResponses(n) ==
    {[status_code |-> 400, json |-> EmptyDict, text |-> "invalid_client"]}
    \cup
    {[status_code |-> 200, json |-> j, text |-> "json"] :
        j \in {EmptyDict,
               [k \in {"access_token"} |-> ToString(n)],
               [k \in {"expires_in"} |-> 1]}
              \cup {[k \in {"access_token", "expires_in"} |->
                        IF k = "access_token" THEN ToString(n) ELSE e] :
                    e \in 0..MaxExpiresIn}}

Init ==
    /\ negIn = NoCall
    /\ negOut = NegIdle
    /\ InitResolver
    /\ compIn = NoCompletion
    /\ comp = CompIdle
    /\ capIn = NoCapability
    /\ cap = CapIdle
    /\ InitMessageIdle
    /\ InitConfig

\* The identity a resolution presents: what the cache key is computed from.
Identity(r) ==
    [client_id |-> r.client_id, tenant_id |-> r.tenant_id,
     authority_host |-> AuthorityHost(r.authority_host), oidc_token |-> r.oidc_token]

\* A caller enters get_azure_ad_token_from_oidc and runs it up to its return,
\* its raise, or the httpx.post it blocks in.
ResolveBegin(p, client_id, tenant_id, host_env, oidc_token) ==
    /\ pc[p] = "idle"
    /\ ncalls < MaxCalls
    /\ ncalls' = ncalls + 1
    /\ \E inputs \in {[client_id |-> client_id, tenant_id |-> tenant_id,
                         authority_host |-> host_env, oidc_token |-> oidc_token]},
          r \in {ResolveLookup(client_id, tenant_id, host_env, oidc_token, cache, now)} :
           /\ cache' = r.cache
           /\ CASE r.step = "raise" ->
                    /\ event' = [kind |-> "begin", p |-> p, inputs |-> inputs,
                                 step |-> "raise", error |-> r.error,
                                 secret_lookup |-> r.secret_lookup,
                                 cache_read |-> r.cache_read]
                    /\ UNCHANGED <<pc, req, exchangeCalls>>
                [] r.step = "return" ->
                    /\ event' = [kind |-> "begin", p |-> p, inputs |-> inputs,
                                 step |-> "return", token |-> r.token,
                                 secret_lookup |-> r.secret_lookup,
                                 cache_read |-> r.cache_read]
                    /\ UNCHANGED <<pc, req, exchangeCalls>>
                [] r.step = "post" ->
                    /\ event' = [kind |-> "begin", p |-> p, inputs |-> inputs,
                                 step |-> "post",
                                 secret_lookup |-> r.secret_lookup,
                                 cache_read |-> r.cache_read]
                    /\ pc' = [pc EXCEPT ![p] = "posting"]
                    /\ req' = [req EXCEPT ![p] = inputs]
                    /\ exchangeCalls' = exchangeCalls + 1
    /\ UNCHANGED <<now, issued>>
    /\ UNCHANGED <<negVars, compVars, capVars, msgVars, cfgVars>>

\* httpx.post returns, and the caller runs on to its return or raise.
PostReturns(p, resp) ==
    /\ pc[p] = "posting"
    /\ \E r \in {ResolveResponse(
                      AzureAdTokenCacheKey(req[p].client_id, req[p].tenant_id,
                                           AuthorityHost(req[p].authority_host),
                                           req[p].oidc_token),
                      resp, cache, now)} :
           /\ cache' = r.cache
           /\ IF r.step = "raise"
              THEN /\ event' = [kind |-> "finish", p |-> p, inputs |-> req[p],
                                resp |-> resp, step |-> "raise", error |-> r.error]
                   /\ UNCHANGED issued
              ELSE /\ event' = [kind |-> "finish", p |-> p, inputs |-> req[p],
                                resp |-> resp, step |-> "return", token |-> r.token]
                   /\ issued' = DictSet(issued, r.token,
                                        [identity |-> Identity(req[p]),
                                         stored_at |-> now,
                                         expires_in |-> resp.json["expires_in"]])
    /\ pc' = [pc EXCEPT ![p] = "idle"]
    /\ req' = [req EXCEPT ![p] = NoReq]
    /\ UNCHANGED <<now, ncalls, exchangeCalls>>
    /\ UNCHANGED <<negVars, compVars, capVars, msgVars, cfgVars>>

\* Time passes.
Tick ==
    /\ now < MaxTime
    /\ now' = now + 1
    /\ event' = [kind |-> "tick"]
    /\ UNCHANGED <<cache, pc, req, ncalls, exchangeCalls, issued>>
    /\ UNCHANGED <<negVars, compVars, capVars, msgVars, cfgVars>>

Begin(p) ==
    \E client_id \in ClientIds, tenant_id \in TenantIds,
       host_env \in AuthorityHostEnv, oidc_token \in OidcTokens :
        ResolveBegin(p, client_id, tenant_id, host_env, oidc_token)

Finish(p) ==
    \E resp \in TokenResponses(Cardinality(DOMAIN issued) + 1) : PostReturns(p, resp)

\* Any number of callers at once.
Next ==
    \/ \E p \in Procs : Begin(p)
    \/ \E p \in Procs : Finish(p)
    \/ Tick

Spec == Init /\ [][Next]_vars

\* One caller, one resolution after the other.
NextSeq ==
    \/ Begin(1)
    \/ Finish(1)
    \/ Tick

SpecSeq == Init /\ [][NextSeq]_vars

\* ------------------------------------------------------------------------
\* Resolutions for several credentials, one after the other

\* The process environment and the secret behind the oidc/ reference, for
\* several credentials: one, four that differ from it in one component each,
\* the one with the default authority host written out, and two whose
\* values hold quotes.
Credentials ==
    {[client_id |-> "c1", tenant_id |-> "t1", authority_host |-> None, oidc_token |-> "jwt1"],
     [client_id |-> "c2", tenant_id |-> "t1", authority_host |-> None, oidc_token |-> "jwt1"],
     [client_id |-> "c1", tenant_id |-> "t2", authority_host |-> None, oidc_token |-> "jwt1"],
     [client_id |-> "c1", tenant_id |-> "t1", authority_host |-> "https://login.example",
      oidc_token |-> "jwt1"],
     [client_id |-> "c1", tenant_id |-> "t1", authority_host |-> None, oidc_token |-> "jwt2"],
     [client_id |-> "c1", tenant_id |-> "t1", authority_host |-> DefaultAuthorityHost,
      oidc_token |-> "jwt1"],
     [client_id |-> "c1", tenant_id |-> "t1", authority_host |-> HostWithQuotes,
      oidc_token |-> "2"],
     [client_id |-> "c1", tenant_id |-> "t1", authority_host |-> "https://h",
      oidc_token |-> SecretWithQuotes]}

\* The token endpoint refuses, or answers with a token that lives.
LiveTokenResponses(n) ==
    {r \in TokenResponses(n) :
        \/ r.status_code # 200
        \/ /\ DOMAIN r.json = {"access_token", "expires_in"}
           /\ r.json["expires_in"] = 1}

ResolveCredential ==
    \E id \in Credentials :
        ResolveBegin(1, id.client_id, id.tenant_id, id.authority_host, id.oidc_token)

ExchangeReturns ==
    \E resp \in LiveTokenResponses(Cardinality(DOMAIN issued) + 1) : PostReturns(1, resp)

NextCredentials ==
    \/ ResolveCredential
    \/ ExchangeReturns

SpecCredentials == Init /\ [][NextCredentials]_vars

\* ------------------------------------------------------------------------
\* One chat-completion request

GatewayBase == <<"https:", "/", "/">> \o GatewayHost \o <<"/", "acct">>

ApiBases ==
    {GatewayBase,
     GatewayBase \o <<"/">>,
     <<"https:", "/", "/", "res", ".", "openai", ".", "azure", ".", "com">>,
     <<"https:", "/", "/", "res", ".", "openai", ".", "azure", ".", "com">>
        \o DeploymentsPath \o <<"/", "dep">>}

AzureAdTokens == {NoneS, <<"bearer-token">>, <<"oidc", "/", "azure">>}

\* What the caller passes as optional_params.
OptionalParams ==
    {EmptyDict,
     [k \in {"stream"} |-> PyTrue],
     [k \in {"max_retries"} |-> IntVal(5)],
     [k \in {"max_retries"} |-> [type |-> "str", v |-> 3]],
     [k \in {"stream", "max_retries"} |->
        IF k = "stream" THEN PyTrue ELSE IntVal(5)]}

\* A client the caller built: its _custom_query is a dict, with or without
\* an "api-version" entry, or is not one.
SuppliedClients ==
    {[kind |-> "supplied",
      custom_query |-> [is_dict |-> TRUE, d |-> [k \in {"api-version"} |-> "2023-05-15"]]],
     [kind |-> "supplied",
      custom_query |-> [is_dict |-> TRUE, d |-> EmptyDict]],
     [kind |-> "supplied",
      custom_query |-> [is_dict |-> FALSE, d |-> EmptyDict]]}

\* The environment and the secret manager, as far as an oidc/ token reads them.
OidcEnvs ==
    {[client_id |-> c, tenant_id |-> "t1", authority_host |-> None, oidc_token |-> o] :
        c \in {None, "c1"}, o \in {None, "jwt1"}}

InitCompletion ==
    /\ negIn = NoCall
    /\ negOut = NegIdle
    /\ InitResolver
    /\ compIn \in UNION {
          {[model |-> m, messages |-> "messages", api_key |-> k,
            api_base |-> b, api_version |-> "2024-02-01",
            azure_ad_token |-> t, optional_params |-> o,
            acompletion |-> a, client |-> c, env |-> e] :
              m \in {None, "gpt-4"}, b \in ApiBases, o \in OptionalParams,
              a \in BOOLEAN, c \in {NoClient} \cup SuppliedClients,
              e \in IF t = <<"oidc", "/", "azure">>
                    THEN OidcEnvs ELSE {NoEnv}} :
          k \in {None, "sk-key"}, t \in AzureAdTokens}
    /\ comp = [pc |-> "start"]
    /\ capIn = NoCapability
    /\ cap = CapIdle
    /\ InitMessageIdle
    /\ InitConfig

\* AzureOpenAI(**azure_client_params) / AsyncAzureOpenAI(**azure_client_params)
BuiltClient(cls, params) == [kind |-> "built", cls |-> cls, params |-> params]

\* The constructor raising (no credentials): an exception without status_code.
ConstructorError == [type |-> "OpenAIError", has_status |-> FALSE, status_code |-> 0]

\* What chat.completions.create can do.
UpstreamOutcomes ==
    {[type |-> "none"],
     [type |-> "APIStatusError", has_status |-> TRUE, status_code |-> 429],
     [type |-> "APIConnectionError", has_status |-> FALSE, status_code |-> 0]}

\* issued, after a resolution made inside a request.
IssuedAfter(auth, env, resp) ==
    IF auth.posted /\ auth.error.type = "none"
    THEN DictSet(issued, auth.azure_ad_token[1],
                 [identity |-> Identity(env), stored_at |-> now,
                  expires_in |-> resp.json["expires_in"]])
    ELSE issued

\* The route completion takes at lines 486-524.
Route(acompletion, optional_params) ==
    IF acompletion
    THEN IF DictGet(optional_params, "stream", PyFalse) = PyTrue
         THEN "async_streaming" ELSE "acompletion"
    ELSE IF "stream" \in DOMAIN optional_params /\ optional_params["stream"] = PyTrue
         THEN "streaming" ELSE "blocking"

\* data = {"model": None, "messages": messages, **optional_params}
GatewayData(model, optional_params) ==
    DictMerge([k \in {"model", "messages"} |->
                 IF k = "model" THEN None ELSE "messages"], optional_params)

\* data = {"model": model, "messages": messages, **optional_params}
PlainData(model, optional_params) ==
    DictMerge([k \in {"model", "messages"} |->
                 IF k = "model" THEN model ELSE "messages"], optional_params)

\* Lines 456-462.
GatewayClientParams(api_version, base_url, max_retries) ==
    [k \in {"api_version", "base_url", "http_client", "max_retries", "timeout"} |->
        CASE k = "api_version" -> api_version
          [] k = "base_url" -> base_url
          [] k = "http_client" -> "litellm.client_session"
          [] k = "max_retries" -> max_retries
          [] OTHER -> "timeout"]

\* Lines 544-551 (and 621-628, 696-703, 754-761).
AzureClientParams(api_version, api_base, model, max_retries) ==
    [k \in {"api_version", "azure_endpoint", "azure_deployment", "http_client",
            "max_retries", "timeout"} |->
        CASE k = "api_version" -> api_version
          [] k = "azure_endpoint" -> api_base
          [] k = "azure_deployment" -> model
          [] k = "http_client" -> "litellm.client_session"
          [] k = "max_retries" -> max_retries
          [] OTHER -> "timeout"]

Raised(e) == [outcome |-> "raise", error |-> e]

\* The request's state as completion is entered.
CompletionStart(in) ==
    [pc |-> "done", api_base |-> in.api_base,
     azure_ad_token |-> in.azure_ad_token, client |-> in.client,
     data |-> EmptyDict, max_retries |-> IntVal(DefaultMaxRetries),
     optional_params |-> in.optional_params,
     built |-> <<>>, log |-> <<>>, upstream |-> <<>>, oidc_calls |-> 0,
     custom_query |-> IF in.client.kind = "supplied" THEN in.client.custom_query
                      ELSE [is_dict |-> FALSE, d |-> EmptyDict],
     result |-> [outcome |-> "pending"]]

\* completion, lines 437-523: the check of model and messages, the pop of
\* max_retries, the gateway branch with its client, the payload, the route.
CompletionEnter(resp, ctor_ok) ==
    /\ comp.pc = "start"
    /\ \E in \in {compIn},
          max_retries \in {DictGet(compIn.optional_params, "max_retries",
                                   IntVal(DefaultMaxRetries))},
          optional_params \in {DictWithout(compIn.optional_params, "max_retries")},
          gateway \in {Contains(compIn.api_base, GatewayHost)} :
       \E build \in {gateway /\ in.client.kind = "none"} :
       \E api_base \in {IF build THEN GatewayBaseUrl(in.api_base, in.model)
                        ELSE in.api_base} :
       \E auth \in {AttachAuth(GatewayClientParams(in.api_version, api_base, max_retries),
                               in.api_key, in.azure_ad_token, in.env, resp, cache, now)},
          cls \in {IF in.acompletion THEN "AsyncAzureOpenAI" ELSE "AzureOpenAI"},
          base \in {[CompletionStart(in) EXCEPT !.max_retries = max_retries]} :
           IF in.model = None \/ in.messages = None
           THEN /\ comp' = [base EXCEPT !.result = Raised(AzureError(422))]
                /\ UNCHANGED <<cache, exchangeCalls, issued>>
           ELSE IF build /\ auth.error.type # "none"
           THEN /\ comp' = [base EXCEPT !.result = Raised(CompletionExcept(auth.error)),
                                        !.oidc_calls = auth.oidc_calls,
                                        !.optional_params = optional_params,
                                        !.api_base = api_base]
                /\ cache' = auth.cache
                /\ exchangeCalls' = exchangeCalls + (IF auth.posted THEN 1 ELSE 0)
                /\ UNCHANGED issued
           ELSE IF build /\ ~ctor_ok
           THEN /\ comp' = [base EXCEPT !.result = Raised(CompletionExcept(ConstructorError)),
                                        !.oidc_calls = auth.oidc_calls,
                                        !.optional_params = optional_params,
                                        !.api_base = api_base,
                                        !.azure_ad_token = auth.azure_ad_token,
                                        !.built = <<BuiltClient(cls, auth.params)>>]
                /\ cache' = auth.cache
                /\ exchangeCalls' = exchangeCalls + (IF auth.posted THEN 1 ELSE 0)
                /\ issued' = IssuedAfter(auth, in.env, resp)
           ELSE /\ comp' = [base EXCEPT
                              !.pc = Route(in.acompletion, optional_params),
                              !.oidc_calls = IF build THEN auth.oidc_calls ELSE 0,
                              !.optional_params = optional_params,
                              !.api_base = api_base,
                              !.azure_ad_token = IF build THEN auth.azure_ad_token
                                                 ELSE in.azure_ad_token,
                              !.client = IF build THEN BuiltClient(cls, auth.params)
                                         ELSE in.client,
                              !.built = IF build THEN <<BuiltClient(cls, auth.params)>>
                                        ELSE <<>>,
                              !.data = IF gateway
                                       THEN GatewayData(in.model, optional_params)
                                       ELSE PlainData(in.model, optional_params)]
                /\ cache' = IF build THEN auth.cache ELSE cache
                /\ exchangeCalls' = exchangeCalls
                                    + (IF build /\ auth.posted THEN 1 ELSE 0)
                /\ issued' = IF build THEN IssuedAfter(auth, in.env, resp) ELSE issued
    /\ UNCHANGED <<now, pc, req, event, ncalls, compIn>>
    /\ UNCHANGED <<negVars, capVars, msgVars, cfgVars>>

\* The except clauses of acompletion (lines 667-676): an exception that
\* carries a status_code is re-raised as it is.
AcompletionExcept(e) ==
    IF e.type = "AzureOpenAIError" THEN e
    ELSE IF e.type = "CancelledError" THEN AzureError(500)
    ELSE IF e.has_status THEN e
    ELSE AzureError(500)

AsyncStreamingExceptReraise(e) == e

\* The except clause of async_streaming (lines 802-806).
AsyncStreamingExcept(e) ==
    IF e.has_status THEN AzureError(e.status_code) ELSE AzureError(500)

PathExcept(path, e) ==
    CASE path = "acompletion" -> AcompletionExcept(e)
      [] path = "async_streaming" -> AsyncStreamingExcept(e)
      [] OTHER -> CompletionExcept(e)

\* _custom_query.setdefault("api-version", api_version)
SetDefault(d, k, v) == IF k \in DOMAIN d THEN d ELSE DictSet(d, k, v)

CancelledError == [type |-> "CancelledError", has_status |-> FALSE, status_code |-> 0]

\* The step at which a path ends: the max_retries check (not made by
\* async_streaming), the credential, the constructor, the upstream call.
PathStage(path, max_retries, auth, construct, ctor_ok, up) ==
    IF path # "async_streaming" /\ max_retries.type # "int" THEN "max_retries"
    ELSE IF auth.error.type # "none" THEN "auth"
    ELSE IF construct /\ ~ctor_ok THEN "constructor"
    ELSE IF up.type # "none" THEN "upstream"
    ELSE "ok"

\* The rest of the request on one of its four paths: the blocking path
\* (completion, lines 524-589), acompletion, streaming, async_streaming.
\* resp is the token endpoint's answer if it is asked, ctor_ok whether the
\* client constructor succeeds if it is called, up what the upstream call does.
PathRun(path, resp, ctor_ok, up) ==
    /\ comp.pc = path
    /\ \E st \in {comp},
          max_retries \in {IF path = "blocking" THEN comp.max_retries
                           ELSE DictGet(comp.data, "max_retries",
                                        IntVal(DefaultMaxRetries))},
          data \in {IF path = "blocking" THEN comp.data
                    ELSE DictWithout(comp.data, "max_retries")},
          log0 \in {IF path = "blocking" THEN Append(comp.log, "pre_call")
                    ELSE comp.log},
          construct \in {comp.client.kind = "none"},
          cls \in {IF path \in {"blocking", "streaming"} THEN "AzureOpenAI"
                   ELSE "AsyncAzureOpenAI"} :
       \E auth \in {AttachAuth(SelectAzureBaseUrlOrEndpoint(
                                  AzureClientParams(compIn.api_version, st.api_base,
                                                    compIn.model, max_retries)),
                               compIn.api_key, st.azure_ad_token, compIn.env,
                               resp, cache, now)} :
       \E client \in {IF construct THEN BuiltClient(cls, auth.params) ELSE st.client},
          custom_query \in
              {IF ~construct /\ compIn.api_version # None /\ st.custom_query.is_dict
               THEN [is_dict |-> TRUE,
                     d |-> SetDefault(st.custom_query.d, "api-version",
                                      compIn.api_version)]
               ELSE st.custom_query},
          log1 \in {IF path = "blocking" THEN log0 ELSE Append(log0, "pre_call")},
          stage \in {PathStage(path, max_retries, auth, construct, ctor_ok, up)} :
       \E error \in {CASE stage = "max_retries" -> AzureError(422)
                       [] stage = "auth" -> auth.error
                       [] stage = "constructor" -> ConstructorError
                       [] OTHER -> up},
          resolved \in {stage # "max_retries"},
          reached \in {stage \in {"upstream", "ok"}} :
           /\ comp' = [st EXCEPT
                 !.pc = "done",
                 !.data = data,
                 !.max_retries = max_retries,
                 !.azure_ad_token = IF resolved THEN auth.azure_ad_token ELSE @,
                 !.oidc_calls = IF resolved THEN @ + auth.oidc_calls ELSE @,
                 !.client = IF reached THEN client ELSE @,
                 !.built = IF construct /\ stage \in {"constructor", "upstream", "ok"}
                           THEN Append(@, client) ELSE @,
                 !.custom_query = IF reached THEN custom_query ELSE @,
                 !.log = IF ~reached THEN log0
                         ELSE IF stage = "ok" /\ path = "blocking"
                         THEN Append(log1, "post_call")
                         ELSE log1,
                 !.upstream = IF reached
                              THEN Append(@, [client |-> client, data |-> data,
                                              custom_query |-> custom_query,
                                              outcome |-> up.type])
                              ELSE @,
                 !.result = IF stage = "ok"
                            THEN [outcome |-> "return",
                                  value |-> IF path \in {"streaming", "async_streaming"}
                                            THEN "CustomStreamWrapper"
                                            ELSE "ModelResponse"]
                            ELSE Raised(PathExcept(path, error))]
           /\ cache' = IF resolved THEN auth.cache ELSE cache
           /\ exchangeCalls' = exchangeCalls
                               + (IF resolved /\ auth.posted THEN 1 ELSE 0)
           /\ issued' = IF resolved THEN IssuedAfter(auth, compIn.env, resp)
                        ELSE issued
    /\ UNCHANGED <<now, pc, req, event, ncalls, compIn>>
    /\ UNCHANGED <<negVars, capVars, msgVars, cfgVars>>

Enter ==
    \E resp \in TokenResponses(Cardinality(DOMAIN issued) + 1), ctor_ok \in BOOLEAN :
        CompletionEnter(resp, ctor_ok)

Blocking ==
    \E resp \in TokenResponses(Cardinality(DOMAIN issued) + 1), ctor_ok \in BOOLEAN,
       up \in UpstreamOutcomes :
        PathRun("blocking", resp, ctor_ok, up)

Acompletion ==
    \E resp \in TokenResponses(Cardinality(DOMAIN issued) + 1), ctor_ok \in BOOLEAN,
       up \in UpstreamOutcomes \cup {CancelledError} :
        PathRun("acompletion", resp, ctor_ok, up)

Streaming ==
    \E resp \in TokenResponses(Cardinality(DOMAIN issued) + 1), ctor_ok \in BOOLEAN,
       up \in UpstreamOutcomes :
        PathRun("streaming", resp, ctor_ok, up)

AsyncStreaming ==
    \E resp \in TokenResponses(Cardinality(DOMAIN issued) + 1), ctor_ok \in BOOLEAN,
       up \in UpstreamOutcomes :
        PathRun("async_streaming", resp, ctor_ok, up)

NextCompletion ==
    \/ Enter
    \/ Blocking
    \/ Acompletion
    \/ Streaming
    \/ AsyncStreaming

SpecCompletion == InitCompletion /\ [][NextCompletion]_vars

\* ------------------------------------------------------------------------
\* The other capabilities: embeddings, image generation, audio
\* transcription, and the assistants operations. One request is made twice
\* with the same arguments against the same environment, once blocking and
\* once non-blocking.

Modes == {"blocking", "nonblocking"}

Capabilities == {"embedding", "image_generation", "audio_transcription", "assistants"}

\* max_retries=None
NoneVal == [type |-> "NoneType", v |-> 0]

CapSuppliedClient == [kind |-> "supplied"]

CapApiBases ==
    {<<"https:", "/", "/", "res", ".", "openai", ".", "azure", ".", "com">>,
     <<"https:", "/", "/", "res", ".", "openai", ".", "azure", ".", "com">>
        \o DeploymentsPath \o <<"/", "dep">>}

\* optional_params: embedding and image_generation read max_retries from it,
\* image_generation also base_model.
CapOptionalParams(capability) ==
    IF capability \in {"embedding", "image_generation"}
    THEN {EmptyDict,
          [k \in {"max_retries"} |-> IntVal(5)],
          [k \in {"max_retries"} |-> [type |-> "str", v |-> 3]]}
         \cup (IF capability = "image_generation"
               THEN {[k \in {"base_model"} |-> "dall-e-3"]} ELSE {})
    ELSE {EmptyDict}

\* The max_retries argument of audio_transcriptions and of the assistants
\* operations.
CapMaxRetries(capability) ==
    IF capability \in {"audio_transcription", "assistants"}
    THEN {NoneVal, IntVal(5)}
    ELSE {NoneVal}

\* The token endpoint is not asked.
NoResponse == [status_code |-> 0, json |-> EmptyDict, text |-> ""]

\* What the token endpoint answers to this request's exchange.
CapTokenResponses ==
    {r \in TokenResponses(1) :
        \/ r.status_code # 200
        \/ /\ DOMAIN r.json = {"access_token", "expires_in"}
           /\ r.json["expires_in"] = 1}

\* A request as its function is entered; optional_params is the caller's
\* dict, which the function is handed by reference.
CapStart(in) ==
    [pc |-> "start", log |-> <<>>, built |-> <<>>, upstream |-> <<>>,
     params |-> EmptyDict, data |-> EmptyDict,
     optional_params |-> in.optional_params,
     result |-> [outcome |-> "pending"]]

InitCapability ==
    /\ negIn = NoCall
    /\ negOut = NegIdle
    /\ InitResolver
    /\ compIn = NoCompletion
    /\ comp = CompIdle
    /\ capIn \in UNION {
          {[capability |-> c, model |-> "dep", api_key |-> k, api_base |-> b,
            api_version |-> "2024-02-01", azure_ad_token |-> t,
            optional_params |-> o, max_retries |-> mr, client |-> cl,
            env |-> e, resp |-> r, ctor_ok |-> ok, up |-> u] :
              b \in CapApiBases, o \in CapOptionalParams(c),
              mr \in CapMaxRetries(c), cl \in {NoClient, CapSuppliedClient},
              e \in IF t = <<"oidc", "/", "azure">> THEN OidcEnvs ELSE {NoEnv},
              r \in IF t = <<"oidc", "/", "azure">> THEN CapTokenResponses
                    ELSE {NoResponse},
              ok \in BOOLEAN, u \in UpstreamOutcomes} :
          c \in Capabilities, k \in {None, "sk-key"}, t \in AzureAdTokens}
    /\ cap = [m \in Modes |-> CapStart(capIn)]
    /\ InitMessageIdle
    /\ InitConfig

\* logging_obj.pre_call(...)
PreCall == [obs |-> "pre_call"]

\* logging_obj.post_call(..., original_response=...)
PostCall(original_response) ==
    [obs |-> "post_call", original_response |-> original_response]

Return(value) == [outcome |-> "return", value |-> value]

\* The except clauses of embedding (lines 932-939).
EmbeddingExcept(e) ==
    IF e.type = "AzureOpenAIError" THEN e
    ELSE IF e.has_status THEN AzureError(e.status_code)
    ELSE AzureError(500)

\* The except clauses of image_generation (lines 1089-1096).
ImageGenerationExcept(e) ==
    IF e.type = "AzureOpenAIError" THEN e
    ELSE IF e.has_status THEN AzureError(e.status_code)
    ELSE AzureError(500)

\* What the caller gets when e is raised inside a function: embedding and
\* image_generation translate it; aembedding, aimage_generation and
\* async_audio_transcriptions log it and re-raise it; audio_transcriptions
\* and the assistants operations have no try around their body.
CapExcept(excepts, e) ==
    CASE excepts = "embedding" -> EmbeddingExcept(e)
      [] excepts = "image_generation" -> ImageGenerationExcept(e)
      [] OTHER -> e

\* How each function makes its upstream call: the client class it
\* constructs when none is given, whether it logs pre_call between the
\* constructor and the call, whether it logs post_call after the call and in
\* its except clause, how it translates an exception, what it returns.

\* embedding, lines 917-939 (pre_call is logged earlier, at line 896).
EmbeddingCall ==
    [cls |-> "AzureOpenAI", pre_call |-> FALSE, post_call |-> TRUE,
     post_on_error |-> FALSE, excepts |-> "embedding", value |-> "EmbeddingResponse"]

\* aembedding, lines 819-847.
AembeddingCall ==
    [cls |-> "AsyncAzureOpenAI", pre_call |-> FALSE, post_call |-> TRUE,
     post_on_error |-> TRUE, excepts |-> "reraise", value |-> "EmbeddingResponse"]

\* image_generation, lines 1058-1096.
ImageGenerationCall ==
    [cls |-> "AzureOpenAI", pre_call |-> TRUE, post_call |-> TRUE,
     post_on_error |-> FALSE, excepts |-> "image_generation", value |-> "ImageResponse"]

\* aimage_generation, lines 952-996.
AimageGenerationCall ==
    [cls |-> "AsyncAzureOpenAI", pre_call |-> TRUE, post_call |-> TRUE,
     post_on_error |-> TRUE, excepts |-> "reraise", value |-> "ImageResponse"]

\* audio_transcriptions, lines 1150-1180.
AudioTranscriptionsCall ==
    [cls |-> "AzureOpenAI", pre_call |-> TRUE, post_call |-> TRUE,
     post_on_error |-> FALSE, excepts |-> "none", value |-> "TranscriptionResponse"]

\* async_audio_transcriptions, lines 1195-1249.
AsyncAudioTranscriptionsCall ==
    [cls |-> "AsyncAzureOpenAI", pre_call |-> TRUE, post_call |-> TRUE,
     post_on_error |-> TRUE, excepts |-> "reraise", value |-> "TranscriptionResponse"]

\* get_assistants, lines 1558-1570.
GetAssistantsCall ==
    [cls |-> "AzureOpenAI", pre_call |-> FALSE, post_call |-> FALSE,
     post_on_error |-> FALSE, excepts |-> "none", value |-> "CursorPage[Assistant]"]

\* async_get_assistants, lines 1491-1503.
AsyncGetAssistantsCall ==
    [cls |-> "AsyncAzureOpenAI", pre_call |-> FALSE, post_call |-> FALSE,
     post_on_error |-> FALSE, excepts |-> "none", value |-> "CursorPage[Assistant]"]

\* Where the call ends: in the constructor, in the upstream call, or well.
CallStage(client, ctor_ok, up) ==
    IF client.kind = "none" /\ ~ctor_ok THEN "constructor"
    ELSE IF up.type # "none" THEN "upstream"
    ELSE "ok"

\* The observations after the call.
CallLog(log, f, stage) ==
    (IF f.pre_call /\ stage # "constructor" THEN Append(log, PreCall) ELSE log)
    \o (IF stage = "ok"
        THEN (IF f.post_call THEN <<PostCall("response")>> ELSE <<>>)
        ELSE (IF f.post_on_error THEN <<PostCall("error")>> ELSE <<>>))

\* The common end of every function: the client is constructed from params
\* unless one was given, pre_call is logged, the upstream operation is
\* called with data, post_call is logged, and the response is returned; an
\* exception on the way goes through the function's except clauses.
ClientCallAt(run, f, client, used, data, stage, error) ==
    [run EXCEPT
       !.pc = "done",
       !.built = IF client.kind = "none" THEN Append(@, used) ELSE @,
       !.upstream = IF stage # "constructor"
                    THEN Append(@, [client |-> used, data |-> data]) ELSE @,
       !.log = CallLog(@, f, stage),
       !.result = IF stage = "ok" THEN Return(f.value)
                  ELSE Raised(CapExcept(f.excepts, error))]

ClientCall(run, f, client, params, data, ctor_ok, up) ==
    ClientCallAt(run, f, client,
                 IF client.kind = "none" THEN BuiltClient(f.cls, params) ELSE client,
                 data, CallStage(client, ctor_ok, up),
                 IF client.kind = "none" /\ ~ctor_ok THEN ConstructorError ELSE up)

\* The function raises e before it has a client.
CapRaise(run, excepts, e) ==
    [run EXCEPT !.pc = "done", !.result = Raised(CapExcept(excepts, e))]

\* The function returns the coroutine of its async counterpart.
CapCoroutine(run, params, data) ==
    [run EXCEPT !.pc = "coroutine", !.params = params, !.data = data]

\* What a resolution made inside the request leaves behind.
CapAuthEffects(resolved, auth) ==
    /\ cache' = IF resolved THEN auth.cache ELSE cache
    /\ exchangeCalls' = exchangeCalls + (IF resolved /\ auth.posted THEN 1 ELSE 0)
    /\ issued' = IF resolved THEN IssuedAfter(auth, capIn.env, capIn.resp) ELSE issued

CapFrame ==
    /\ UNCHANGED <<now, pc, req, event, ncalls, capIn>>
    /\ UNCHANGED <<negVars, compVars, msgVars, cfgVars>>

\* Lines 1037-1043: as the chat parameters, without http_client.
ImageClientParams(api_version, api_base, model, max_retries) ==
    [k \in {"api_version", "azure_endpoint", "azure_deployment",
            "max_retries", "timeout"} |->
        CASE k = "api_version" -> api_version
          [] k = "azure_endpoint" -> api_base
          [] k = "azure_deployment" -> model
          [] k = "max_retries" -> max_retries
          [] OTHER -> "timeout"]

\* Lines 1117-1122.
AudioClientParams(api_version, api_base, model) ==
    [k \in {"api_version", "azure_endpoint", "azure_deployment", "timeout"} |->
        CASE k = "api_version" -> api_version
          [] k = "azure_endpoint" -> api_base
          [] k = "azure_deployment" -> model
          [] OTHER -> "timeout"]

\* get_azure_client / async_get_azure_client, lines 1437-1444 and
\* 1463-1470: every argument that is not None, api_base under the name
\* azure_endpoint.
AssistantsClientData(api_key, api_base, api_version, azure_ad_token, max_retries) ==
    [k \in {"azure_endpoint", "api_version", "timeout"}
           \cup (IF api_key # None THEN {"api_key"} ELSE {})
           \cup (IF azure_ad_token # NoneS THEN {"azure_ad_token"} ELSE {})
           \cup (IF max_retries # NoneVal THEN {"max_retries"} ELSE {}) |->
        CASE k = "azure_endpoint" -> api_base
          [] k = "api_version" -> api_version
          [] k = "api_key" -> api_key
          [] k = "azure_ad_token" -> azure_ad_token
          [] k = "max_retries" -> max_retries
          [] OTHER -> "timeout"]

\* Lines 1015-1018: an empty model is None.
ImageModel(model) == IF model = None \/ model = "" THEN None ELSE model

\* {"model": model, <input>: ..., **optional_params}
CapData(model, input, optional_params) ==
    DictMerge([k \in {"model", input} |-> IF k = "model" THEN model ELSE input],
              optional_params)

\* embedding (lines 864-939), called with aembedding = (mode is non-blocking).
Embedding(mode) ==
    /\ capIn.capability = "embedding"
    /\ cap[mode].pc = "start"
    /\ \E run \in {cap[mode]},
          data0 \in {CapData(capIn.model, "input", capIn.optional_params)} :
       \E max_retries \in {DictGet(data0, "max_retries", IntVal(DefaultMaxRetries))},
          data \in {DictWithout(data0, "max_retries")} :
       \E auth \in {AttachAuth(SelectAzureBaseUrlOrEndpoint(
                                  AzureClientParams(capIn.api_version, capIn.api_base,
                                                    capIn.model, max_retries)),
                               capIn.api_key, capIn.azure_ad_token, capIn.env,
                               capIn.resp, cache, now)},
          logged \in {[run EXCEPT !.log = Append(@, PreCall)]} :
           /\ cap' = [cap EXCEPT ![mode] =
                 IF max_retries.type # "int"
                 THEN CapRaise(run, "embedding", AzureError(422))
                 ELSE IF auth.error.type # "none"
                 THEN CapRaise(run, "embedding", auth.error)
                 ELSE IF mode = "nonblocking"
                 THEN CapCoroutine(logged, auth.params, data)
                 ELSE ClientCall(logged, EmbeddingCall, capIn.client, auth.params,
                                 data, capIn.ctor_ok, capIn.up)]
           /\ CapAuthEffects(max_retries.type = "int", auth)
    /\ CapFrame

\* aembedding (lines 819-847), awaited by the caller.
Aembedding ==
    /\ capIn.capability = "embedding"
    /\ cap["nonblocking"].pc = "coroutine"
    /\ \E run \in {cap["nonblocking"]} :
          cap' = [cap EXCEPT !["nonblocking"] =
                    ClientCall(run, AembeddingCall, capIn.client, run.params,
                               run.data, capIn.ctor_ok, capIn.up)]
    /\ UNCHANGED <<cache, exchangeCalls, issued>>
    /\ CapFrame

\* image_generation (lines 1013-1096), called with aimg_generation = (mode is
\* non-blocking) and a model_response.
ImageGeneration(mode) ==
    /\ capIn.capability = "image_generation"
    /\ cap[mode].pc = "start"
    /\ \E optional_params \in {DictWithout(capIn.optional_params, "base_model")},
          model \in {ImageModel(capIn.model)} :
       \E run \in {[cap[mode] EXCEPT !.optional_params = optional_params]} :
       \E data0 \in {CapData(model, "prompt", optional_params)} :
       \E max_retries \in {DictGet(data0, "max_retries", IntVal(DefaultMaxRetries))},
          data \in {DictWithout(data0, "max_retries")} :
       \E auth \in {AttachAuth(SelectAzureBaseUrlOrEndpoint(
                                  ImageClientParams(capIn.api_version, capIn.api_base,
                                                    model, max_retries)),
                               capIn.api_key, capIn.azure_ad_token, capIn.env,
                               capIn.resp, cache, now)} :
           /\ cap' = [cap EXCEPT ![mode] =
                 IF max_retries.type # "int"
                 THEN CapRaise(run, "image_generation", AzureError(422))
                 ELSE IF auth.error.type # "none"
                 THEN CapRaise(run, "image_generation", auth.error)
                 ELSE IF mode = "nonblocking"
                 THEN CapCoroutine(run, auth.params, data)
                 ELSE ClientCall(run, ImageGenerationCall, capIn.client,
                                 DictSet(auth.params, "http_client", "client_session"),
                                 data, capIn.ctor_ok, capIn.up)]
           /\ CapAuthEffects(max_retries.type = "int", auth)
    /\ CapFrame

\* aimage_generation (lines 952-996), awaited by the caller.
AimageGeneration ==
    /\ capIn.capability = "image_generation"
    /\ cap["nonblocking"].pc = "coroutine"
    /\ \E run \in {cap["nonblocking"]} :
          cap' = [cap EXCEPT !["nonblocking"] =
                    ClientCall(run, AimageGenerationCall, capIn.client,
                               DictSet(run.params, "http_client", "client_session"),
                               run.data, capIn.ctor_ok, capIn.up)]
    /\ UNCHANGED <<cache, exchangeCalls, issued>>
    /\ CapFrame

\* audio_transcriptions (lines 1114-1180), called with atranscription =
\* (mode is non-blocking).
AudioTranscriptions(mode) ==
    /\ capIn.capability = "audio_transcription"
    /\ cap[mode].pc = "start"
    /\ \E run \in {cap[mode]},
          data \in {CapData(capIn.model, "file", capIn.optional_params)},
          auth \in {AttachAuth(SelectAzureBaseUrlOrEndpoint(
                                  AudioClientParams(capIn.api_version, capIn.api_base,
                                                    capIn.model)),
                               capIn.api_key, capIn.azure_ad_token, capIn.env,
                               capIn.resp, cache, now)} :
       \E params \in {IF capIn.max_retries # NoneVal
                      THEN DictSet(auth.params, "max_retries", capIn.max_retries)
                      ELSE auth.params} :
           /\ cap' = [cap EXCEPT ![mode] =
                 IF auth.error.type # "none"
                 THEN CapRaise(run, "none", auth.error)
                 ELSE IF mode = "nonblocking"
                 THEN CapCoroutine(run, params, data)
                 ELSE ClientCall(run, AudioTranscriptionsCall, capIn.client,
                                 DictSet(params, "http_client", "litellm.client_session"),
                                 data, capIn.ctor_ok, capIn.up)]
           /\ CapAuthEffects(TRUE, auth)
    /\ CapFrame

\* async_audio_transcriptions (lines 1195-1249), awaited by the caller.
AsyncAudioTranscriptions ==
    /\ capIn.capability = "audio_transcription"
    /\ cap["nonblocking"].pc = "coroutine"
    /\ \E run \in {cap["nonblocking"]} :
          cap' = [cap EXCEPT !["nonblocking"] =
                    ClientCall(run, AsyncAudioTranscriptionsCall, capIn.client,
                               DictSet(run.params, "http_client", "litellm.aclient_session"),
                               run.data, capIn.ctor_ok, capIn.up)]
    /\ UNCHANGED <<cache, exchangeCalls, issued>>
    /\ CapFrame

\* get_assistants (lines 1548-1570), called with aget_assistants = (mode is
\* non-blocking); the other assistants, thread, message and run operations
\* obtain their client by the same get_azure_client / async_get_azure_client.
GetAssistants(mode) ==
    /\ capIn.capability = "assistants"
    /\ cap[mode].pc = "start"
    /\ \E run \in {cap[mode]},
          data \in {AssistantsClientData(capIn.api_key, capIn.api_base,
                                         capIn.api_version, capIn.azure_ad_token,
                                         capIn.max_retries)} :
          cap' = [cap EXCEPT ![mode] =
                    IF mode = "nonblocking"
                    THEN CapCoroutine(run, EmptyDict, EmptyDict)
                    ELSE ClientCall(run, GetAssistantsCall, capIn.client, data,
                                    EmptyDict, capIn.ctor_ok, capIn.up)]
    /\ UNCHANGED <<cache, exchangeCalls, issued>>
    /\ CapFrame

\* async_get_assistants (lines 1491-1503), awaited by the caller.
AsyncGetAssistants ==
    /\ capIn.capability = "assistants"
    /\ cap["nonblocking"].pc = "coroutine"
    /\ \E run \in {cap["nonblocking"]},
          data \in {AssistantsClientData(capIn.api_key, capIn.api_base,
                                         capIn.api_version, capIn.azure_ad_token,
                                         capIn.max_retries)} :
          cap' = [cap EXCEPT !["nonblocking"] =
                    ClientCall(run, AsyncGetAssistantsCall, capIn.client, data,
                               EmptyDict, capIn.ctor_ok, capIn.up)]
    /\ UNCHANGED <<cache, exchangeCalls, issued>>
    /\ CapFrame

NextCapability ==
    \/ \E mode \in Modes : Embedding(mode)
    \/ Aembedding
    \/ \E mode \in Modes : ImageGeneration(mode)
    \/ AimageGeneration
    \/ \E mode \in Modes : AudioTranscriptions(mode)
    \/ AsyncAudioTranscriptions
    \/ \E mode \in Modes : GetAssistants(mode)
    \/ AsyncGetAssistants

SpecCapability == InitCapability /\ [][NextCapability]_vars

\* ------------------------------------------------------------------------
\* Properties of get_azure_ad_token_from_oidc

ValidInputs(i) ==
    i.client_id # None /\ i.tenant_id # None /\ i.oidc_token # None

ExpiresAt(tok) == issued[tok].stored_at + issued[tok].expires_in

\* The tokens exchanged for identity id.
TokensOf(id) == {tok \in DOMAIN issued : issued[tok].identity = id}

\* Those whose TTL has not elapsed at time t.
LiveTokens(id, t) == {tok \in TokensOf(id) : t < ExpiresAt(tok)}

\* C1: in a sequence of resolutions with the same client id, tenant id,
\* authority host and secret, once one has succeeded and while its token's
\* TTL has not elapsed, a further resolution makes no token-exchange call
\* and returns the token the first one stored.
C1_CachedWithinTTL ==
    (/\ event.kind = "begin"
     /\ ValidInputs(event.inputs)
     /\ LiveTokens(Identity(event.inputs), now) # {})
    => /\ event.step = "return"
       /\ pc[event.p] = "idle"
       /\ event.token \in LiveTokens(Identity(event.inputs), now)
       /\ \A tok \in LiveTokens(Identity(event.inputs), now) :
            issued[event.token].stored_at <= issued[tok].stored_at

C1_Witness ==
    /\ event.kind = "begin"
    /\ event.step = "return"
    /\ event.token \in LiveTokens(Identity(event.inputs), now)
    /\ issued[event.token].stored_at < now
    /\ exchangeCalls = 1
    /\ ncalls = 3

\* C2: a token stored with ttl = expires_in is never returned from the
\* cache once now >= store time + expires_in; a resolution made at or after
\* the expiry of every token of its identity performs a fresh exchange and
\* returns the newly exchanged token.
C2_NeverReturnedExpired ==
    /\ (event.kind = "begin" /\ event.step = "return")
       => /\ event.token \in DOMAIN issued
          /\ now < ExpiresAt(event.token)
    /\ (/\ event.kind = "begin"
        /\ ValidInputs(event.inputs)
        /\ LiveTokens(Identity(event.inputs), now) = {})
       => /\ event.step = "post"
          /\ pc[event.p] = "posting"
    /\ (event.kind = "finish" /\ event.step = "return")
       => /\ event.token = event.resp.json["access_token"]
          /\ issued[event.token].stored_at = now
          /\ \A tok \in TokensOf(Identity(event.inputs)) :
                now >= ExpiresAt(tok) /\ issued[tok].stored_at < now
                => tok # event.token

C2_Witness ==
    /\ event.kind = "begin"
    /\ event.step = "post"
    /\ \E tok \in TokensOf(Identity(event.inputs)) :
         /\ issued[tok].expires_in > 0
         /\ now = ExpiresAt(tok)

\* ------------------------------------------------------------------------
\* Properties of map_openai_params

NegDone == negOut.pc = "done"

WellFormed == negIn.version_fields # <<>>

VYear == negIn.version_fields[1]

VMonth == negIn.version_fields[2]

VDay == negIn.version_fields[3]

\* (y, m, d) is earlier than (y0, m0, d0), component by component, each
\* component compared as a string.
Earlier(y, m, d, y0, m0, d0) ==
    \/ StrLess(y, y0)
    \/ (y = y0 /\ (StrLess(m, m0) \/ (m = m0 /\ StrLess(d, d0))))

Before20231201 == Earlier(VYear, VMonth, VDay, Y2023, M12, D01)

HasToolChoice ==
    \E i \in DOMAIN negIn.non_default_params :
        negIn.non_default_params[i][1] = "tool_choice"

ToolChoiceValue ==
    LET i == CHOOSE j \in DOMAIN negIn.non_default_params :
                 negIn.non_default_params[j][1] = "tool_choice"
    IN  negIn.non_default_params[i][2]

ToolChoiceIndex ==
    CHOOSE j \in DOMAIN negIn.non_default_params :
        negIn.non_default_params[j][1] = "tool_choice"

DropRequested == negIn.litellm_drop_params = PyTrue \/ negIn.drop_params = PyTrue

Rejected == negOut.outcome = "UnsupportedParamsError" /\ negOut.status_code = 400

Forwarded(value) ==
    /\ negOut.outcome = "return"
    /\ "tool_choice" \in DOMAIN negOut.optional_params
    /\ negOut.optional_params["tool_choice"] = value

In2024UpTo05 == VYear = Y2024 /\ StrLeq(VMonth, M05)

GateFails ==
    \/ Before20231201
    \/ (ToolChoiceValue = "required" /\ In2024UpTo05)

SameEntry(d1, d2, k) ==
    /\ (k \in DOMAIN d1) = (k \in DOMAIN d2)
    /\ k \in DOMAIN d1 => d1[k] = d2[k]

\* C3: with dropping disabled and a tool_choice value other than "required",
\* the call raises UnsupportedParamsError (400) exactly when the API version
\* is earlier than 2023-12-01 under component-wise string comparison;
\* otherwise tool_choice is written with its value unchanged.
C3_ToolChoiceGate ==
    (NegDone /\ WellFormed /\ ~DropRequested /\ HasToolChoice
        /\ ToolChoiceValue # "required")
    => /\ (negOut.outcome = "UnsupportedParamsError") = Before20231201
       /\ Before20231201 => Rejected
       /\ ~Before20231201 => Forwarded(ToolChoiceValue)

C3_Witness ==
    /\ NegDone /\ WellFormed /\ ~DropRequested /\ HasToolChoice
    /\ ToolChoiceValue = "auto"
    /\ VYear = Y2023 /\ VMonth = M12 /\ VDay = D01
    /\ Forwarded("auto")

\* C4: when a tool_choice gate fails and dropping is enabled, no error is
\* raised, tool_choice is not written, and every other requested parameter
\* of the allow-list is forwarded, wherever tool_choice stands in the
\* iteration order.
C4_DropContinues ==
    (NegDone /\ WellFormed /\ DropRequested /\ HasToolChoice /\ GateFails)
    => /\ negOut.outcome = "return"
       /\ SameEntry(negOut.optional_params, negIn.optional_params, "tool_choice")
       /\ \A i \in DOMAIN negIn.non_default_params :
            LET param == negIn.non_default_params[i][1]
                value == negIn.non_default_params[i][2]
            IN  (param # "tool_choice" /\ param \in SupportedOpenAIParams)
                => /\ param \in DOMAIN negOut.optional_params
                   /\ negOut.optional_params[param] = value

C4_Witness ==
    /\ NegDone /\ WellFormed /\ DropRequested /\ HasToolChoice /\ GateFails
    /\ Len(negIn.non_default_params) = 3
    /\ ToolChoiceIndex = 1
    /\ negIn.non_default_params[2][1] = "temperature"
    /\ negIn.optional_params = EmptyDict
    /\ negOut.outcome = "return"
    /\ "tool_choice" \notin DOMAIN negOut.optional_params
    /\ negOut.optional_params["temperature"] = "1"

\* C5: with dropping disabled, tool_choice="required" is rejected with
\* UnsupportedParamsError (400) for every API version whose year is "2024"
\* and whose month is <= "05" as a string.
C5_RequiredRejected ==
    (NegDone /\ WellFormed /\ ~DropRequested /\ HasToolChoice
        /\ ToolChoiceValue = "required" /\ In2024UpTo05)
    => Rejected

C5_Witness ==
    /\ NegDone /\ WellFormed /\ ~DropRequested /\ HasToolChoice
    /\ ToolChoiceValue = "required"
    /\ VYear = Y2024 /\ VMonth = M05 /\ VDay = D01
    /\ Rejected

\* (year, month) <= ("2024", "05"), component by component.
UpTo202405 == StrLess(VYear, Y2024) \/ (VYear = Y2024 /\ StrLeq(VMonth, M05))

C7_AtomicFailure ==
    (NegDone /\ negOut.outcome = "UnsupportedParamsError")
    => negOut.optional_params = negIn.optional_params

\* C8 as stated: a per-call drop_params of false overrides a global
\* litellm.drop_params of true (the failing gate rejects), and a per-call
\* true overrides a global false (the parameter is dropped).
C8_Original ==
    (NegDone /\ WellFormed /\ HasToolChoice /\ GateFails)
    => /\ (negIn.drop_params = PyFalse /\ negIn.litellm_drop_params = PyTrue)
            => Rejected
       /\ (negIn.drop_params = PyTrue /\ negIn.litellm_drop_params = PyFalse)
            => negOut.outcome = "return"

\* C8 as amended: a failing tool_choice gate drops the parameter when the
\* global flag or the per-call flag is true and rejects otherwise: a per-call
\* true overrides a global false, a per-call false does not override a
\* global true.
C8_DropFlags ==
    (NegDone /\ WellFormed /\ HasToolChoice /\ GateFails)
    => /\ (negIn.litellm_drop_params = PyTrue \/ negIn.drop_params = PyTrue)
            => /\ negOut.outcome = "return"
               /\ SameEntry(negOut.optional_params, negIn.optional_params,
                            "tool_choice")
       /\ (negIn.litellm_drop_params # PyTrue /\ negIn.drop_params # PyTrue)
            => Rejected

C8_Witness ==
    /\ NegDone /\ WellFormed /\ HasToolChoice /\ GateFails
    /\ negIn.drop_params = PyFalse /\ negIn.litellm_drop_params = PyTrue
    /\ negOut.outcome = "return"

\* C9: a requested parameter outside the allow-list never raises an error
\* and never appears in the result: every key the call adds or changes is
\* in the allow-list and carries the requested value, no entry is removed,
\* and a request without tool_choice always returns.
C9_AllowList ==
    NegDone
    => /\ DOMAIN negIn.optional_params \subseteq DOMAIN negOut.optional_params
       /\ \A k \in DOMAIN negOut.optional_params :
            ~SameEntry(negOut.optional_params, negIn.optional_params, k)
            => /\ k \in SupportedOpenAIParams
               /\ \E i \in DOMAIN negIn.non_default_params :
                    negIn.non_default_params[i] = <<k, negOut.optional_params[k]>>
       /\ (WellFormed /\ ~HasToolChoice) => negOut.outcome = "return"

C9_Witness ==
    /\ NegDone /\ WellFormed
    /\ \E i \in DOMAIN negIn.non_default_params :
         negIn.non_default_params[i][1] = "parallel_tool_calls"
    /\ \E i \in DOMAIN negIn.non_default_params :
         negIn.non_default_params[i][1] = "n"
    /\ negIn.optional_params = EmptyDict
    /\ negOut.outcome = "return"
    /\ DOMAIN negOut.optional_params = {"n"}

\* ------------------------------------------------------------------------
\* Properties of completion

IsGateway == Contains(compIn.api_base, GatewayHost)

\* api_base without the "/" it may end with.
ApiBaseStem ==
    IF EndsWith(compIn.api_base, <<"/">>)
    THEN SubSeq(compIn.api_base, 1, Len(compIn.api_base) - 1)
    ELSE compIn.api_base

\* C10: in completion, when api_base contains the gateway hostname and no
\* client is supplied, the one client the request builds has base_url equal
\* to api_base, exactly one "/" and the model name, and has neither
\* azure_endpoint nor azure_deployment; every payload sent upstream goes
\* through that client and has model = None. When api_base does not contain
\* the gateway hostname, the payload carries the model unchanged.
C10_GatewayClient ==
    comp.pc # "start"
    => /\ (IsGateway /\ compIn.client.kind = "none")
          => /\ Len(comp.built) <= 1
             /\ \A i \in DOMAIN comp.built :
                  /\ "base_url" \in DOMAIN comp.built[i].params
                  /\ comp.built[i].params["base_url"]
                       = ApiBaseStem \o <<"/">> \o <<compIn.model>>
                  /\ "azure_endpoint" \notin DOMAIN comp.built[i].params
                  /\ "azure_deployment" \notin DOMAIN comp.built[i].params
             /\ \A i \in DOMAIN comp.upstream :
                  /\ comp.built # <<>>
                  /\ comp.upstream[i].client = comp.built[1]
       /\ (comp.pc # "done" \/ comp.upstream # <<>>)
          => comp.data["model"] = IF IsGateway THEN None ELSE compIn.model
       /\ \A i \in DOMAIN comp.upstream :
            comp.upstream[i].data["model"]
              = IF IsGateway THEN None ELSE compIn.model

C10_Witness ==
    /\ comp.pc = "done"
    /\ IsGateway /\ compIn.client.kind = "none"
    /\ EndsWith(compIn.api_base, <<"/">>)
    /\ compIn.model = "gpt-4"
    /\ Len(comp.upstream) = 1
    /\ comp.upstream[1].data["model"] = None
    /\ comp.upstream[1].client.params["base_url"] = GatewayBase \o <<"/", "gpt-4">>
    /\ comp.result.outcome = "return"

\* The caller passed a max_retries that is not an int.
NonIntMaxRetries ==
    /\ "max_retries" \in DOMAIN compIn.optional_params
    /\ compIn.optional_params["max_retries"].type # "int"

FailedWith(status_code) ==
    /\ comp.result.outcome = "raise"
    /\ comp.result.error.type = "AzureOpenAIError"
    /\ comp.result.error.status_code = status_code

\* C11: on every chat-completion path reached through completion, a
\* caller-supplied max_retries that is not an int makes the request fail
\* with AzureOpenAIError 422, and no token-exchange call and no upstream
\* call has been made by then.
C11_NonIntMaxRetriesRejected ==
    (comp.pc = "done" /\ NonIntMaxRetries)
    => /\ FailedWith(422)
       /\ exchangeCalls = 0
       /\ comp.upstream = <<>>

\* ------------------------------------------------------------------------
\* Properties of the steps of get_azure_ad_token_from_oidc

MissingIdentity(i) == i.client_id = None \/ i.tenant_id = None

\* The step just taken is a caller entering the resolver.
BeginStep == event'.kind = "begin" /\ ncalls' = ncalls + 1

\* The step just taken is a caller's httpx.post returning.
FinishStep ==
    /\ event'.kind = "finish"
    /\ pc[event'.p] = "posting"
    /\ pc'[event'.p] = "idle"

RaisedStatus(e, status_code) ==
    /\ e.step = "raise"
    /\ e.error.outcome = "AzureOpenAIError"
    /\ e.error.status_code = status_code

\* C17: when AZURE_CLIENT_ID or AZURE_TENANT_ID is absent the resolver
\* raises 422 before the secret lookup, before any cache read or write and
\* before any token-exchange call; when both are present and the secret
\* lookup answers None it raises 401 with no cache access and no
\* token-exchange call.
C17_FailFast ==
    [][BeginStep
       => /\ MissingIdentity(event'.inputs)
             => /\ RaisedStatus(event', 422)
                /\ ~event'.secret_lookup
                /\ ~event'.cache_read
                /\ cache' = cache
                /\ exchangeCalls' = exchangeCalls
                /\ pc' = pc
          /\ (~MissingIdentity(event'.inputs) /\ event'.inputs.oidc_token = None)
             => /\ RaisedStatus(event', 401)
                /\ ~event'.cache_read
                /\ cache' = cache
                /\ exchangeCalls' = exchangeCalls
                /\ pc' = pc]_vars

C17_Witness ==
    /\ event.kind = "begin"
    /\ ~MissingIdentity(event.inputs)
    /\ RaisedStatus(event, 401)
    /\ ~event.cache_read
    /\ \E k \in DOMAIN cache : cache[k].expires_at <= now

\* C18: on a cache miss the resolver makes exactly one token-exchange call
\* and does not retry: a non-200 response raises an error with that
\* response's status code and body, a 200 response without access_token or
\* without expires_in raises 422, and in each of these cases nothing is
\* written to the token cache.
C18_ExchangeOnce ==
    [][/\ (BeginStep /\ ValidInputs(event'.inputs))
          => /\ \A k \in DOMAIN cache' : k \in DOMAIN cache /\ cache'[k] = cache[k]
             /\ ~CacheLive(cache, AzureAdTokenCacheKey(
                                     event'.inputs.client_id, event'.inputs.tenant_id,
                                     AuthorityHost(event'.inputs.authority_host),
                                     event'.inputs.oidc_token), now)
                => /\ event'.step = "post"
                   /\ exchangeCalls' = exchangeCalls + 1
                   /\ pc'[event'.p] = "posting"
       /\ FinishStep
          => /\ exchangeCalls' = exchangeCalls
             /\ event'.resp.status_code # 200
                => /\ RaisedStatus(event', event'.resp.status_code)
                   /\ event'.error.message = event'.resp.text
                   /\ cache' = cache
             /\ (/\ event'.resp.status_code = 200
                 /\ \/ "access_token" \notin DOMAIN event'.resp.json
                    \/ "expires_in" \notin DOMAIN event'.resp.json)
                => /\ RaisedStatus(event', 422)
                   /\ cache' = cache]_vars

C18_Witness ==
    /\ event.kind = "finish"
    /\ event.resp.status_code = 400
    /\ RaisedStatus(event, 400)
    /\ event.error.message = event.resp.text
    /\ DOMAIN cache # {}
    /\ exchangeCalls >= 2

\* ------------------------------------------------------------------------
\* Properties of the credential a request ends up with

\* The auth fields among the parameters a client was built from.
AuthFields(params) == (DOMAIN params) \cap {"api_key", "azure_ad_token"}

\* C19: when an api_key is supplied, credential resolution is a
\* passthrough: get_azure_ad_token_from_oidc is never called (no secret
\* lookup, no token-cache access, no token-exchange call), even when
\* azure_ad_token is an oidc/ reference; every client the request builds is
\* given the api key and no bearer token, so exactly one auth field.
C19_StaticKeyPassthrough ==
    (comp.pc # "start" /\ compIn.api_key # None)
    => /\ comp.oidc_calls = 0
       /\ exchangeCalls = 0
       /\ cache = EmptyDict
       /\ \A i \in DOMAIN comp.built :
            /\ AuthFields(comp.built[i].params) = {"api_key"}
            /\ comp.built[i].params["api_key"] = compIn.api_key

C19_Witness ==
    /\ comp.pc = "done"
    /\ compIn.api_key # None
    /\ StartsWith(compIn.azure_ad_token, <<"oidc", "/">>)
    /\ ValidInputs(compIn.env)
    /\ Len(comp.built) = 1
    /\ Len(comp.upstream) = 1
    /\ comp.result.outcome = "return"

\* ------------------------------------------------------------------------
\* Properties of a request made through a supplied client

\* C20: when a pre-built client whose _custom_query is a dict is supplied,
\* no client is constructed, and every upstream call is made through that
\* client with its "api-version" query default equal to the request's
\* api_version.
C20_VersionPatched ==
    (/\ comp.pc # "start"
     /\ compIn.client.kind = "supplied"
     /\ compIn.client.custom_query.is_dict)
    => /\ comp.built = <<>>
       /\ \A i \in DOMAIN comp.upstream :
            /\ comp.upstream[i].custom_query.is_dict
            /\ "api-version" \in DOMAIN comp.upstream[i].custom_query.d
            /\ comp.upstream[i].custom_query.d["api-version"] = compIn.api_version

\* C15: once the upstream operation has been invoked, exactly one post-call
\* observation has been emitted by the time the call returns or raises.
C15_OnePostCall ==
    (comp.pc = "done" /\ comp.upstream # <<>>)
    => Cardinality({i \in DOMAIN comp.log : comp.log[i] = "post_call"}) = 1

\* ------------------------------------------------------------------------
\* Properties of the capabilities on their two paths

\* The run in this mode has ended after invoking the upstream operation.
CalledUpstream(mode) == cap[mode].pc = "done" /\ cap[mode].upstream # <<>>

IsAzureOpenAIError(result, status_code) ==
    /\ result.outcome = "raise"
    /\ result.error.type = "AzureOpenAIError"
    /\ result.error.status_code = status_code

\* C12: for each capability, the blocking and the non-blocking path given
\* the same inputs and the same upstream outcome end the same way: the same
\* response on success, and on an upstream failure an AzureOpenAIError with
\* the same status code on both.
C12_PathParity ==
    (CalledUpstream("blocking") /\ CalledUpstream("nonblocking"))
    => IF capIn.up.type = "none"
       THEN /\ cap["blocking"].result.outcome = "return"
            /\ cap["nonblocking"].result = cap["blocking"].result
       ELSE \E status_code \in {429, 500} :
               /\ IsAzureOpenAIError(cap["blocking"].result, status_code)
               /\ IsAzureOpenAIError(cap["nonblocking"].result, status_code)

\* C13: for every capability and both paths, a failure of the upstream call
\* reaches the caller as an AzureOpenAIError, with the upstream exception's
\* status_code when it has one and 500 otherwise.
C13_UpstreamErrorsWrapped ==
    \A mode \in Modes :
        (CalledUpstream(mode) /\ capIn.up.type # "none")
        => IsAzureOpenAIError(cap[mode].result,
                              IF capIn.up.has_status THEN capIn.up.status_code
                              ELSE 500)

\* C14: a post-call observation of a request is emitted only after a
\* pre-call observation of that request, also when the client constructor or
\* the upstream call fails.
C14_PreBeforePost ==
    \A mode \in Modes :
        \A i \in DOMAIN cap[mode].log :
            cap[mode].log[i].obs = "post_call"
            => \E j \in 1..(i - 1) : cap[mode].log[j].obs = "pre_call"

\* C16: for every capability, when no api_key is given and azure_ad_token is
\* an oidc/ reference, the token a client is built with is the access token
\* obtained from get_azure_ad_token_from_oidc, never the reference itself.
C16_OidcResolvedBeforeClient ==
    (capIn.api_key = None /\ StartsWith(capIn.azure_ad_token, <<"oidc", "/">>))
    => \A mode \in Modes :
          \A i \in DOMAIN cap[mode].built :
              /\ "azure_ad_token" \in DOMAIN cap[mode].built[i].params
              /\ cap[mode].built[i].params["azure_ad_token"] # capIn.azure_ad_token
              /\ cap[mode].built[i].params["azure_ad_token"][1] \in DOMAIN issued

\* ------------------------------------------------------------------------
\* Properties of the caller's values after a request

\* C21: after completion returns or raises, the caller's optional_params
\* mapping holds exactly the keys and values it held before the call.
C21_OptionalParamsUnchanged ==
    comp.pc = "done" => comp.optional_params = compIn.optional_params

\* What the next resolution of the request's credential does at time t, as
\* far as its cache lookup.
NextResolution(t) ==
    ResolveLookup(compIn.env.client_id, compIn.env.tenant_id,
                  compIn.env.authority_host, compIn.env.oidc_token, cache, t)

\* The request ended in an error after its upstream call was made: the call
\* failed, timed out or was cancelled.
UpstreamFailed ==
    comp.pc = "done" /\ comp.upstream # <<>> /\ comp.result.outcome = "raise"

\* C22: a token stored in the cache during the request's credential
\* resolution is still cached when the request's upstream call has failed,
\* timed out or been cancelled: at every time within the token's TTL, the
\* next resolution of the same credential returns that token from the cache
\* and goes on to no token exchange.
C22_TokenSurvivesFailure ==
    UpstreamFailed
    => \A tok \in DOMAIN issued :
          \A t \in now..(ExpiresAt(tok) - 1) :
              /\ NextResolution(t).step = "return"
              /\ NextResolution(t).token = tok
              /\ NextResolution(t).cache = cache

C22_Witness ==
    /\ UpstreamFailed
    /\ compIn.acompletion
    /\ comp.result.error.type = "AzureOpenAIError"
    /\ comp.result.error.status_code = 500
    /\ exchangeCalls = 1
    /\ \E tok \in DOMAIN issued :
          /\ issued[tok].expires_in = 2
          /\ NextResolution(now + 1).step = "return"
          /\ NextResolution(now + 1).token = tok

\* ------------------------------------------------------------------------
\* Properties of concurrent resolutions

KeyOf(inputs) ==
    AzureAdTokenCacheKey(inputs.client_id, inputs.tenant_id,
                         AuthorityHost(inputs.authority_host), inputs.oidc_token)

\* No entry of the cache is added or changed by the step.
NoCacheWrite == \A k \in DOMAIN cache' : k \in DOMAIN cache /\ cache'[k] = cache[k]

\* C23: under any interleaving of two concurrent resolutions, a resolution
\* that misses the cache makes one token-exchange call and none further
\* before it ends; a resolution that returns after its exchange returns the
\* access token of its own successful (200) response, exchanged for its own
\* credential; its cache write replaces whatever the cache held under the
\* credential's key, and no other step writes, so the cache holds the token
\* of the later of two writes.
C23_LastWriteWins ==
    [][/\ (BeginStep /\ event'.step = "post")
          => /\ pc[event'.p] = "idle"
             /\ pc'[event'.p] = "posting"
             /\ exchangeCalls' = exchangeCalls + 1
       /\ FinishStep => exchangeCalls' = exchangeCalls
       /\ (FinishStep /\ event'.step = "return")
          => /\ event'.resp.status_code = 200
             /\ event'.token = event'.resp.json["access_token"]
             /\ event'.token # None
             /\ event'.token \notin DOMAIN issued
             /\ issued'[event'.token].identity = Identity(event'.inputs)
             /\ \E key \in {KeyOf(event'.inputs)} :
                   /\ key \in DOMAIN cache'
                   /\ cache'[key].value = event'.token
                   /\ \A k \in (DOMAIN cache') \ {key} :
                         k \in DOMAIN cache /\ cache'[k] = cache[k]
       /\ ~(FinishStep /\ event'.step = "return") => NoCacheWrite]_vars

\* Two callers missed the cache for the same credential at the same time,
\* both exchanged, and the second to finish has just written its token over
\* the first's.
C23_Witness ==
    /\ event.kind = "finish"
    /\ event.step = "return"
    /\ \A p \in Procs : pc[p] = "idle"
    /\ ncalls = 2
    /\ exchangeCalls = 2
    /\ Cardinality(TokensOf(Identity(event.inputs))) = 2
    /\ \A tok \in TokensOf(Identity(event.inputs)) :
          issued[tok].expires_in >= 1 /\ issued[tok].stored_at = now
    /\ cache[KeyOf(event.inputs)].value = event.token

\* ------------------------------------------------------------------------
\* Properties of map_openai_params_create_message_params

MsgDone == msgOut.pc = "done"

\* The type check made on a requested parameter fails: content that is not
\* a string, attachments that are not a list, an attachment item without a
\* file reference.
FailsTypeCheck(item) ==
    \/ (item[1] = "content" /\ item[2].type # "str")
    \/ (item[1] = "attachments" /\ item[2].type # "list")
    \/ (/\ item[1] = "attachments"
        /\ item[2].type = "list"
        /\ \E j \in DOMAIN item[2].items : "file_id" \notin DOMAIN item[2].items[j])

SomeCheckFails ==
    \E i \in DOMAIN msgIn.non_default_params :
        FailsTypeCheck(msgIn.non_default_params[i])

\* C24: when a type check of the message-creation negotiator fails, the
\* call raises UnsupportedParamsError (400) with dropping disabled; with
\* dropping enabled it raises nothing, leaves the offending parameter out of
\* optional_params, and still writes role, metadata and a string content.
C24_DropOrReject ==
    (MsgDone /\ SomeCheckFails)
    => IF msgIn.litellm_drop_params = PyTrue
       THEN /\ msgOut.outcome = "return"
            /\ \A i \in DOMAIN msgIn.non_default_params :
                 LET param == msgIn.non_default_params[i][1]
                     value == msgIn.non_default_params[i][2]
                 IN  IF FailsTypeCheck(msgIn.non_default_params[i])
                     THEN SameEntry(msgOut.optional_params, msgIn.optional_params, param)
                     ELSE param \in {"role", "metadata", "content"}
                          => /\ param \in DOMAIN msgOut.optional_params
                             /\ msgOut.optional_params[param] = value
       ELSE /\ msgOut.outcome = "UnsupportedParamsError"
            /\ msgOut.status_code = 400

\* ------------------------------------------------------------------------
\* Properties of AzureOpenAIConfig

\* The calls, latest first, that passed a value other than None for k.
CallsSetting(k) == {i \in DOMAIN ctorCalls : ctorCalls[i][k] # None}

\* The most recent call that did.
LastCallSetting(k) == CHOOSE i \in CallsSetting(k) : \A j \in CallsSetting(k) : j <= i

\* C30: the settings live in class-level state: after any sequence of
\* constructor calls, get_config() holds for each setting the most recent
\* value other than None passed to any call, holds no entry for a setting no
\* call has given, and holds nothing else; a call that passes None for a
\* setting leaves the value of an earlier call in place.
C30_ClassLevelSettings ==
    /\ DOMAIN GetConfig(classDict) = {k \in Settings : CallsSetting(k) # {}}
    /\ \A k \in DOMAIN GetConfig(classDict) :
          GetConfig(classDict)[k] = ctorCalls[LastCallSetting(k)][k]

C30_Witness ==
    /\ Len(ctorCalls) = 3
    /\ ctorCalls[1][<<"temperature">>] = "1"
    /\ ctorCalls[2][<<"temperature">>] = None
    /\ ctorCalls[3][<<"temperature">>] = None
    /\ ctorCalls[2][<<"stop">>] = "1"
    /\ ctorCalls[3][<<"stop">>] = "2"
    /\ GetConfig(classDict)[<<"temperature">>] = "1"
    /\ GetConfig(classDict)[<<"stop">>] = "2"
    /\ <<"max_tokens">> \notin DOMAIN GetConfig(classDict)

\* ------------------------------------------------------------------------
\* Properties of the streaming paths

\* The request takes one of the two streaming paths.
StreamRequested == DictGet(compIn.optional_params, "stream", PyFalse) = PyTrue

\* C25: on the streaming and async-streaming paths the call hands back the
\* stream wrapper only when the credential was resolved, a client was at
\* hand and the upstream create call returned without error; in every other
\* case the call itself raises, and what it raises is an AzureOpenAIError.
C25_StreamErrorsRaisedByCall ==
    (comp.pc = "done" /\ StreamRequested)
    => /\ comp.result.outcome \in {"return", "raise"}
       /\ comp.result.outcome = "return"
          => /\ comp.result.value = "CustomStreamWrapper"
             /\ Len(comp.upstream) = 1
             /\ comp.upstream[1].outcome = "none"
             /\ comp.upstream[1].client.kind \in {"built", "supplied"}
             /\ Cardinality(DOMAIN issued) = exchangeCalls
             /\ (compIn.api_key = None
                 /\ StartsWith(compIn.azure_ad_token, <<"oidc", "/">>))
                => /\ ValidInputs(compIn.env)
                   /\ comp.azure_ad_token[1] \in DOMAIN issued
       /\ comp.result.outcome = "raise"
          => comp.result.error.type = "AzureOpenAIError"

C25_Witness ==
    /\ comp.pc = "done"
    /\ StreamRequested
    /\ compIn.acompletion
    /\ compIn.client.kind = "none"
    /\ Len(comp.built) = 1
    /\ Len(comp.upstream) = 1
    /\ comp.upstream[1].outcome = "APIStatusError"
    /\ comp.result.outcome = "raise"
    /\ comp.result.error.type = "AzureOpenAIError"
    /\ comp.result.error.status_code = 429

\* ------------------------------------------------------------------------
\* Properties of the retry budget

\* C26: on every path of a request made without a pre-built client, each
\* client the request builds is built with the max_retries the caller gave
\* in optional_params, and with the default 2 only when the caller gave none.
C26_CallerMaxRetries ==
    (comp.pc # "start" /\ compIn.client.kind = "none")
    => \A i \in DOMAIN comp.built :
          comp.built[i].params["max_retries"]
            = DictGet(compIn.optional_params, "max_retries", IntVal(DefaultMaxRetries))

\* ------------------------------------------------------------------------
\* Properties of map_openai_params on a malformed api_version

\* C27: called with an api_version of fewer than three dash-separated
\* components, map_openai_params fails (with the IndexError of the missing
\* component) whatever parameters are requested, none and none but others
\* than tool_choice included, and optional_params holds what it held before.
C27_ShortVersionFails ==
    (NegDone /\ ~WellFormed)
    => /\ negOut.outcome = "IndexError"
       /\ negOut.optional_params = negIn.optional_params

C27_Witness ==
    /\ NegDone
    /\ negIn.api_version = Y2024 \o Dash \o M05
    /\ negIn.non_default_params = <<>>
    /\ negIn.optional_params # EmptyDict
    /\ negOut.outcome = "IndexError"
    /\ negOut.optional_params = negIn.optional_params

\* C28: with dropping disabled, tool_choice="required" is rejected, and not
\* written to optional_params, for every API version that passes the
\* 2023-12-01 gate and is at or before 2024-05, the versions of 2023-12
\* among them.
C28_RequiredRejectedUpTo202405 ==
    (NegDone /\ WellFormed /\ ~DropRequested /\ HasToolChoice
        /\ ToolChoiceValue = "required" /\ ~Before20231201 /\ UpTo202405)
    => /\ Rejected
       /\ ~Forwarded("required")

\* ------------------------------------------------------------------------
\* Properties of the cache key

\* C29: credentials that differ in client id, tenant id, authority host or
\* secret value have different cache keys; every entry of the cache holds a
\* token exchanged for the credential of its key, and a resolution answered
\* from the cache returns a token that was exchanged for exactly the
\* credential it presents.
C29_TokenOfOwnCredential ==
    /\ \A id1, id2 \in Credentials :
          KeyOf(id1) = KeyOf(id2) => Identity(id1) = Identity(id2)
    /\ \A k \in DOMAIN cache :
          /\ cache[k].value \in DOMAIN issued
          /\ KeyOf(issued[cache[k].value].identity) = k
    /\ (event.kind = "begin" /\ event.step = "return")
       => /\ event.token \in DOMAIN issued
          /\ issued[event.token].identity = Identity(event.inputs)

\* A cache hit for one of the two credentials whose values hold quotes,
\* while the cache also holds a live token of the other.
C29_Witness ==
    /\ event.kind = "begin"
    /\ event.step = "return"
    /\ event.inputs.oidc_token = SecretWithQuotes
    /\ issued[event.token].identity = Identity(event.inputs)
    /\ Cardinality(DOMAIN cache) = 2
    /\ \E k \in DOMAIN cache :
          issued[cache[k].value].identity.authority_host = HostWithQuotes

====
